---- MODULE Spec2Model ----
(***************************************************************************)
(* A model of the raster editor's non-GUI core:                            *)
(*   - HistoryManager  (src/app/history_manager.py)                        *)
(*   - Layer, LayerManager and its compositor (src/app/layer_manager.py)   *)
(*   - the edit operations of ImageEditorWindow (src/app/main_window.py)   *)
(*   - DrawingCanvas  (src/app/drawing_canvas.py)                          *)
(* Nine specifications share the variables:                                *)
(*   Spec          the HistoryManager API called in any order              *)
(*   SpecApp       the editor window's edit / undo / redo operations       *)
(*   SpecComposite get_composite_image on stacks of layers                 *)
(*   SpecLayers    the LayerManager API called in any order                *)
(*   SpecDrawing   the DrawingCanvas setters and mouse events              *)
(*   SpecCursor    the same with enter, leave and repaint events           *)
(*   SpecScenario  a shape drawn on a transparent layer and applied        *)
(*   SpecSession   a drawing session while the active layer changes        *)
(*   SpecDrag      set_mode and clear_canvas called during a drag too      *)
(***************************************************************************)
EXTENDS Integers, Sequences, FiniteSets, TLC

VARIABLES
    max_depth,          \* HistoryManager.max_depth
    history_stacks,     \* HistoryManager.history_stacks: layer id -> [undo, redo]
    ret,                \* value returned by the last HistoryManager call
    last,               \* the last call made and its arguments
    roundtrip,          \* an undo that succeeded and the redo that followed it
    pushed,             \* per layer id: the states pushed since its history was empty
    layers,             \* LayerManager.layers, index 1 = bottom
    active_layer_id,    \* LayerManager._active_layer_id
    layer_name_counter, \* LayerManager._layer_name_counter
    composite,          \* the value last returned by get_composite_image
    is_drawing_active,  \* ImageEditorWindow.is_drawing_active
    drawing_canvas,     \* ImageEditorWindow.drawing_canvas (None or its image)
    app,                \* the last ImageEditorWindow operation and its outcome
    canvas,             \* the attributes of the DrawingCanvas widget
    stroke              \* the pointer drag in progress and the last canvas call

vars == <<max_depth, history_stacks, ret, last, roundtrip, pushed, layers,
          active_layer_id, layer_name_counter, composite,
          is_drawing_active, drawing_canvas, app, canvas, stroke>>

(***************************************************************************)
(* Bounds of the model.                                                    *)
(***************************************************************************)
MaxDepth == 2        \* max_history_depth is drawn from 1..MaxDepth in Spec
MaxEntries == 3      \* snapshots held by all history stacks together
MaxLayers == 2       \* layers in the layer list
MaxListLayers == 3   \* layers added through the LayerManager API in SpecLayers
MaxW == 2            \* widest image
MaxAppLayers == 1    \* layers open in the editor window
MaxSessionLayers == 2  \* layers open while a drawing session is followed
MaxAppEntries == 2   \* snapshots held by the editor window's history
PushSlack == 1       \* pushes recorded beyond max_depth
CanvasSide == 5      \* width and height of the drawing canvas in SpecDrawing
CursorSide == 2      \* side of the canvas in SpecCursor
MaxCommits == 1      \* drawings applied to the layer in SpecScenario
MaxPaints == 1       \* strokes and shapes painted over one another, in SpecDrawing

(***************************************************************************)
(* Python values.                                                          *)
(***************************************************************************)
None == [none |-> TRUE]
NoId == 0                       \* a layer id that is None (falsy)
LayerIds == {1, 2}              \* two distinct uuid4 values
DefaultMaxHistoryDepth == 20    \* HistoryManager.__init__(max_history_depth=20)
DefaultOpacity == 100           \* Layer.__init__(opacity=1.0), in percent

(***************************************************************************)
(* PIL images: RGBA, 8 bits a channel, not premultiplied. An image is      *)
(* [size |-> <<w, h>>, px |-> pixels in row-major order], a pixel is       *)
(* <<r, g, b, a>>.                                                         *)
(***************************************************************************)
Transparent == <<0, 0, 0, 0>>
OpaqueRed == <<255, 0, 0, 255>>
HalfBlue == <<0, 0, 255, 128>>
OpaqueWhite == <<255, 255, 255, 255>>
Palette == {Transparent, OpaqueRed, HalfBlue}

\* Image.new("RGBA", (w, h), colour)
ImageNew(w, h, colour) == [size |-> <<w, h>>, px |-> [i \in 1..(w * h) |-> colour]]

ImagesOfSize(w, h) ==
    {[size |-> <<w, h>>, px |-> p] : p \in [1..(w * h) -> Palette]}

\* every image of the model
Images == UNION {ImagesOfSize(w, 1) : w \in 1..MaxW}

\* the images the history and the editor window work on
SampleImages == {ImageNew(1, 1, OpaqueRed), ImageNew(1, 1, HalfBlue)}

\* Image.copy(): a new image with the same size and pixels
copy(image) == [size |-> image.size, px |-> image.px]

Last(s) == s[Len(s)]
Front(s) == SubSeq(s, 1, Len(s) - 1)

(***************************************************************************)
(* HistoryManager                                                          *)
(***************************************************************************)
EmptyStacks == [undo |-> <<>>, redo |-> <<>>]

\* defaultdict(lambda: {'undo': [], 'redo': []}).__getitem__: creates the key
Touch(hs, layer_id) ==
    IF layer_id \in DOMAIN hs THEN hs ELSE hs @@ (layer_id :> EmptyStacks)

\* the stacks of a layer id, without creating the key
StacksOf(hs, layer_id) ==
    IF layer_id \in DOMAIN hs THEN hs[layer_id] ELSE EmptyStacks

\* while len(undo) > max_depth: undo.pop(0)
RECURSIVE TrimToDepth(_, _)
TrimToDepthKeepOldest(undo, depth) ==
    IF Len(undo) > depth THEN SubSeq(undo, 1, depth) ELSE undo
TrimToDepth(undo, depth) ==
    IF Len(undo) > depth THEN TrimToDepth(Tail(undo), depth) ELSE undo

can_undo_with_one_entry(hs, layer_id) ==
    layer_id \in DOMAIN hs /\ Len(hs[layer_id].undo) > 0
can_undo(hs, layer_id) ==
    layer_id \in DOMAIN hs /\ Len(hs[layer_id].undo) > 1

\* history_stacks after can_undo or can_redo: `layer_id in history_stacks and
\* ... history_stacks[layer_id] ...` reaches the defaultdict's __getitem__
\* only when the key is there
lookup_without_membership_test(hs, layer_id) == Touch(hs, layer_id)
lookup(hs, layer_id) ==
    IF layer_id \in DOMAIN hs THEN Touch(hs, layer_id) ELSE hs

can_redo(hs, layer_id) ==
    layer_id \in DOMAIN hs /\ hs[layer_id].redo # <<>>

\* add_state: the new history_stacks
add_state_keeps_redo(hs, depth, layer_id, image, is_initial_state) ==
    IF layer_id = NoId THEN hs
    ELSE LET h == Touch(hs, layer_id)
         IN  [h EXCEPT ![layer_id] =
                 [undo |-> TrimToDepth(Append(h[layer_id].undo, image), depth),
                  redo |-> h[layer_id].redo]]
add_state(hs, depth, layer_id, image, is_initial_state) ==
    IF layer_id = NoId THEN hs
    ELSE LET h == Touch(hs, layer_id)
         IN  [h EXCEPT ![layer_id] =
                 [undo |-> TrimToDepth(Append(h[layer_id].undo, image), depth),
                  redo |-> IF is_initial_state THEN h[layer_id].redo ELSE <<>>]]

\* undo: [hs |-> the new history_stacks, ret |-> the value returned]
undo_returns_popped(hs, layer_id) ==
    IF layer_id = NoId \/ ~can_undo(hs, layer_id) THEN [hs |-> hs, ret |-> None]
    ELSE LET h == hs[layer_id]
             current_state == Last(h.undo)
         IN  [hs |-> [hs EXCEPT ![layer_id] =
                         [undo |-> Front(h.undo), redo |-> Append(h.redo, current_state)]],
              ret |-> copy(current_state)]
undo_always_pops(hs, layer_id) ==
    IF layer_id = NoId \/ layer_id \notin DOMAIN hs \/ hs[layer_id].undo = <<>>
    THEN [hs |-> hs, ret |-> None]
    ELSE LET h == hs[layer_id]
         IN  [hs |-> [hs EXCEPT ![layer_id] =
                         [undo |-> Front(h.undo), redo |-> Append(h.redo, Last(h.undo))]],
              ret |-> None]
undo(hs, layer_id) ==
    IF layer_id = NoId \/ ~can_undo(hs, layer_id) THEN [hs |-> hs, ret |-> None]
    ELSE LET h == hs[layer_id]
             current_state == Last(h.undo)
             undo1 == Front(h.undo)
             redo1 == Append(h.redo, current_state)
         IN  IF undo1 # <<>>
             THEN [hs |-> [hs EXCEPT ![layer_id] = [undo |-> undo1, redo |-> redo1]],
                   ret |-> copy(Last(undo1))]
             ELSE [hs |-> [hs EXCEPT ![layer_id] =
                              [undo |-> Append(undo1, Last(redo1)), redo |-> Front(redo1)]],
                   ret |-> None]

\* the way undo takes through its code: "return_none" (refused),
\* "return_previous", or "push_back" (the undo stack is empty after the pop)
undo_path(hs, layer_id) ==
    IF layer_id = NoId \/ ~can_undo(hs, layer_id) THEN "return_none"
    ELSE IF Front(hs[layer_id].undo) # <<>> THEN "return_previous"
    ELSE "push_back"

\* redo: [hs |-> the new history_stacks, ret |-> the value returned]
redo_without_pop(hs, layer_id) ==
    IF layer_id = NoId \/ ~can_redo(hs, layer_id) THEN [hs |-> hs, ret |-> None]
    ELSE LET h == hs[layer_id]
             redone_state == Last(h.redo)
         IN  [hs |-> [hs EXCEPT ![layer_id] =
                         [undo |-> Append(h.undo, redone_state), redo |-> h.redo]],
              ret |-> copy(redone_state)]
redo(hs, layer_id) ==
    IF layer_id = NoId \/ ~can_redo(hs, layer_id) THEN [hs |-> hs, ret |-> None]
    ELSE LET h == hs[layer_id]
             redone_state == Last(h.redo)
         IN  [hs |-> [hs EXCEPT ![layer_id] =
                         [undo |-> Append(h.undo, redone_state), redo |-> Front(h.redo)]],
              ret |-> copy(redone_state)]

clear_history_for_layer(hs, layer_id) ==
    IF layer_id \in DOMAIN hs THEN [hs EXCEPT ![layer_id] = EmptyStacks] ELSE hs

\* history_stacks.clear()
clear_all_history(hs) == <<>>

\* snapshots held by all stacks together
RECURSIVE TotalEntries(_)
TotalEntries(hs) ==
    IF DOMAIN hs = {} THEN 0
    ELSE LET k == CHOOSE x \in DOMAIN hs : TRUE
             rest == [x \in DOMAIN hs \ {k} |-> hs[x]]
         IN  Len(hs[k].undo) + Len(hs[k].redo) + TotalEntries(rest)

(***************************************************************************)
(* PIL pixel arithmetic (8-bit channels, unsigned 32-bit intermediates).   *)
(***************************************************************************)
\* SHIFTFORDIV255(a): ((a >> 8) + a) >> 8
ShiftForDiv255(a) == (((a \div 256) + a) \div 256)

\* DIV255(a): a / 255, rounded
Div255(a) == ShiftForDiv255(a + 128)

\* BLEND8(mask, in1, in2): in1 where the mask is 0, in2 where it is 255
Blend8(mask, in1, in2) == Div255(in1 * (255 - mask) + in2 * mask)

\* Image.alpha_composite, one pixel: src (the overlay) over dst
AlphaCompositePixel(dst, src) ==
    IF src[4] = 0 THEN dst
    ELSE LET blend == dst[4] * (255 - src[4])
             outa255 == src[4] * 255 + blend
             coef1 == (src[4] * 255 * 255 * 128) \div outa255
             coef2 == 255 * 128 - coef1
             channel(c) ==
                 ShiftForDiv255(src[c] * coef1 + dst[c] * coef2 + 128 * 128) \div 128
         IN  <<channel(1), channel(2), channel(3), ShiftForDiv255(outa255 + 128)>>

\* Image.alpha_composite(im) in place, both images of one size
alpha_composite(dst_image, src_image) ==
    [size |-> dst_image.size,
     px |-> [i \in 1..Len(dst_image.px) |->
                AlphaCompositePixel(dst_image.px[i], src_image.px[i])]]

\* Image.paste(im, (0, 0), im) onto a new transparent canvas of w x h: the
\* part of im inside the canvas is blended in with im's own alpha as mask
PasteTopLeft(w, h, image) ==
    [size |-> <<w, h>>,
     px |-> [i \in 1..(w * h) |->
                LET x == (i - 1) % w
                    y == (i - 1) \div w
                IN  IF x < image.size[1] /\ y < image.size[2]
                    THEN LET in == image.px[y * image.size[1] + x + 1]
                         IN  [c \in 1..4 |-> Blend8(in[4], 0, in[c])]
                    ELSE Transparent]]

(***************************************************************************)
(* Layer and LayerManager                                                  *)
(***************************************************************************)
\* Layer.__init__; images are values, and image_is_original_image tells
\* whether image and original_image are one Python object
Layer(id, name, image, visible, opacity, is_original) ==
    [id |-> id,
     name |-> name,
     image |-> image,
     original_image |-> IF image # None /\ is_original THEN copy(image) ELSE None,
     image_is_original_image |-> FALSE,
     visible |-> visible,
     opacity |-> opacity]

has_layers(ls) == ls # <<>>

\* list.insert(position, x), 0-based position
InsertAfter(ls, position, x) ==
    SubSeq(ls, 1, position + 1) \o <<x>> \o SubSeq(ls, position + 2, Len(ls))
Insert(ls, position, x) ==
    SubSeq(ls, 1, position) \o <<x>> \o SubSeq(ls, position + 1, Len(ls))

\* get_active_layer: the layer, or None
get_active_layer_or_bottom(ls, active_id) ==
    IF active_id # NoId /\ \E i \in 1..Len(ls) : ls[i].id = active_id
    THEN ls[CHOOSE i \in 1..Len(ls) : ls[i].id = active_id]
    ELSE IF ls # <<>> THEN ls[1] ELSE None
get_active_layer(ls, active_id) ==
    IF active_id # NoId /\ \E i \in 1..Len(ls) : ls[i].id = active_id
    THEN ls[CHOOSE i \in 1..Len(ls) : ls[i].id = active_id]
    ELSE None

\* set_active_layer_by_id: the new _active_layer_id
set_active_layer_by_id_or_bottom(ls, layer_id) ==
    IF \E i \in 1..Len(ls) : ls[i].id = layer_id THEN layer_id
    ELSE IF ls # <<>> THEN ls[1].id ELSE NoId
set_active_layer_by_id_without_search(ls, layer_id) == layer_id
set_active_layer_by_id(ls, layer_id) ==
    IF \E i \in 1..Len(ls) : ls[i].id = layer_id THEN layer_id ELSE NoId

\* the arguments of the active_layer_changed.emit calls that
\* set_active_layer_by_id makes; uuid.UUID(int=0) stands in for None
active_layer_changed_emit(old_active_id, active_id) ==
    IF old_active_id # active_id THEN <<active_id>> ELSE <<>>

\* the active_layer_changed.emit calls of one operation of the manager: op
\* called with layer_id (the new layer's id for add_layer), old_active_id
\* active before it and ls the list after it
active_layer_changed_calls(op, old_active_id, ls, layer_id) ==
    IF \/ op = "set_active_layer_by_id"
       \/ op = "add_layer" /\ (old_active_id = NoId \/ Len(ls) = 1)
    THEN active_layer_changed_emit(old_active_id, set_active_layer_by_id(ls, layer_id))
    ELSE <<>>

\* a layer name: a given text, or the default text and its number
Name(text) == [text |-> text, n |-> 0]
DefaultName(counter) == [text |-> "Layer", n |-> counter]
NoPosition == -1                \* position = None

\* add_layer: [layers, active, counter, layer] afterwards. name = None asks
\* for the default name, position = NoPosition for the top
add_layer_first_only(ls, active_id, counter, new_id, name, image, position, visible, opacity, is_original) ==
    LET name1 == IF name = None THEN DefaultName(counter) ELSE name
        counter1 == IF name = None THEN counter + 1 ELSE counter
        new_layer == Layer(new_id, name1, image, visible, opacity, is_original)
        ls1 == IF position = NoPosition \/ position >= Len(ls)
               THEN Append(ls, new_layer)
               ELSE Insert(ls, position, new_layer)
    IN  [layers |-> ls1,
         active |-> IF Len(ls1) = 1
                    THEN set_active_layer_by_id(ls1, new_id)
                    ELSE active_id,
         counter |-> counter1,
         layer |-> new_layer]
add_layer(ls, active_id, counter, new_id, name, image, position, visible, opacity, is_original) ==
    LET name1 == IF name = None THEN DefaultName(counter) ELSE name
        counter1 == IF name = None THEN counter + 1 ELSE counter
        new_layer == Layer(new_id, name1, image, visible, opacity, is_original)
        ls1 == IF position = NoPosition \/ position >= Len(ls)
               THEN Append(ls, new_layer)
               ELSE Insert(ls, position, new_layer)
    IN  [layers |-> ls1,
         active |-> IF active_id = NoId \/ Len(ls1) = 1
                    THEN set_active_layer_by_id(ls1, new_id)
                    ELSE active_id,
         counter |-> counter1,
         layer |-> new_layer]

\* the indexes of the layers get_composite_image draws
Drawn(ls) == {i \in 1..Len(ls) : ls[i].visible /\ ls[i].image # None}

\* get_composite_image: the size of the canvas, NoSize when no layer gives one
NoSize == <<0, 0>>               \* base_width, base_height = None, None
BaseSize(ls) ==
    IF Drawn(ls) # {}
    THEN ls[CHOOSE i \in Drawn(ls) : \A j \in Drawn(ls) : i <= j].image.size
    ELSE IF ls # <<>> /\ ls[1].image # None THEN ls[1].image.size
    ELSE NoSize

\* get_composite_image: the loop over the layers, bottom first, from layer i
RECURSIVE CompositeFrom(_, _, _)
CompositeFromTopFirst(ls, i, acc) ==
    IF i > Len(ls) THEN acc
    ELSE LET layer == ls[Len(ls) + 1 - i]
             image_to_composite ==
                 IF layer.image.size # acc.size
                 THEN PasteTopLeft(acc.size[1], acc.size[2], layer.image)
                 ELSE layer.image
         IN  IF layer.visible /\ layer.image # None
             THEN CompositeFrom(ls, i + 1, alpha_composite(acc, image_to_composite))
             ELSE CompositeFrom(ls, i + 1, acc)
CompositeFromWithOpacity(ls, i, acc) ==
    IF i > Len(ls) THEN acc
    ELSE LET layer == ls[i]
             image_to_composite ==
                 IF layer.image.size # acc.size
                 THEN PasteTopLeft(acc.size[1], acc.size[2], layer.image)
                 ELSE layer.image
             faded ==
                 [size |-> image_to_composite.size,
                  px |-> [p \in 1..Len(image_to_composite.px) |->
                             [image_to_composite.px[p] EXCEPT
                                  ![4] = (@ * layer.opacity) \div 100]]]
         IN  IF layer.visible /\ layer.image # None
             THEN CompositeFrom(ls, i + 1, alpha_composite(acc, faded))
             ELSE CompositeFrom(ls, i + 1, acc)
CompositeFromAllLayers(ls, i, acc) ==
    IF i > Len(ls) THEN acc
    ELSE LET layer == ls[i]
             image_to_composite ==
                 IF layer.image.size # acc.size
                 THEN PasteTopLeft(acc.size[1], acc.size[2], layer.image)
                 ELSE layer.image
         IN  IF layer.image # None
             THEN CompositeFrom(ls, i + 1, alpha_composite(acc, image_to_composite))
             ELSE CompositeFrom(ls, i + 1, acc)
CompositeFrom(ls, i, acc) ==
    IF i > Len(ls) THEN acc
    ELSE LET layer == ls[i]
             image_to_composite ==
                 IF layer.image.size # acc.size
                 THEN PasteTopLeft(acc.size[1], acc.size[2], layer.image)
                 ELSE layer.image
         IN  IF layer.visible /\ layer.image # None
             THEN CompositeFrom(ls, i + 1, alpha_composite(acc, image_to_composite))
             ELSE CompositeFrom(ls, i + 1, acc)

get_composite_image_empty_canvas(ls) ==
    IF ls = <<>> \/ BaseSize(ls) = NoSize THEN ImageNew(1, 1, Transparent)
    ELSE CompositeFrom(ls, 1, ImageNew(BaseSize(ls)[1], BaseSize(ls)[2], Transparent))
get_composite_image(ls) ==
    IF ls = <<>> THEN None
    ELSE IF BaseSize(ls) = NoSize THEN ImageNew(1, 1, Transparent)
    ELSE CompositeFrom(ls, 1, ImageNew(BaseSize(ls)[1], BaseSize(ls)[2], Transparent))

\* uuid.uuid4() in Layer.__init__: an id that no layer and no history entry
\* holds (the least such stands for all of them)
Uuid4(ls, hs) ==
    LET used == {ls[i].id : i \in 1..Len(ls)} \cup DOMAIN hs
    IN  CHOOSE id \in 1..(Cardinality(used) + 1) :
            id \notin used /\ \A other \in 1..(id - 1) : other \in used

\* clear_all_layers: [layers, active, counter] afterwards
clear_all_layers == [layers |-> <<>>, active |-> NoId, counter |-> 1]

(***************************************************************************)
(* What the model records about the calls made (not program state).        *)
(***************************************************************************)
NoCall == [op |-> "none", id |-> NoId, init |-> FALSE, had_redo |-> FALSE]
NoRoundtrip == [stage |-> "none", id |-> NoId, before |-> EmptyStacks]
EmptyLog == [ok |-> TRUE, log |-> <<>>]
BrokenLog == [ok |-> FALSE, log |-> <<>>]
NoApp == [op |-> "none", outcome |-> "none"]
NotComputed == [pending |-> TRUE]     \* get_composite_image not called yet
NoStroke == [event |-> "none"]         \* no DrawingCanvas call made yet

Call(op, layer_id, init) ==
    [op |-> op, id |-> layer_id, init |-> init,
     had_redo |-> StacksOf(history_stacks, layer_id).redo # <<>>]

\* pushed[id] after one more add_state(id, image)
LogPush(entry, image) ==
    IF entry.ok /\ Len(entry.log) < max_depth + PushSlack
    THEN [ok |-> TRUE, log |-> Append(entry.log, image)]
    ELSE BrokenLog

LayerManagerUnchanged ==
    UNCHANGED <<layers, active_layer_id, layer_name_counter, composite,
                is_drawing_active, drawing_canvas, canvas, stroke>>

(***************************************************************************)
(* Spec: the HistoryManager API, called in any order with any arguments.   *)
(***************************************************************************)
HistoryInit ==
    /\ max_depth \in 1..MaxDepth
    /\ history_stacks = <<>>
    /\ ret = None
    /\ last = NoCall
    /\ roundtrip = NoRoundtrip
    /\ pushed = [id \in LayerIds |-> EmptyLog]
    /\ layers = <<>>
    /\ active_layer_id = NoId
    /\ layer_name_counter = 1
    /\ composite = NotComputed
    /\ is_drawing_active = FALSE
    /\ drawing_canvas = None
    /\ app = NoApp
    /\ canvas = None
    /\ stroke = NoStroke

AddState(layer_id, image, is_initial_state) ==
    LET hs1 == add_state(history_stacks, max_depth, layer_id, image, is_initial_state)
    IN  /\ TotalEntries(hs1) <= MaxEntries
        /\ history_stacks' = hs1
        /\ ret' = None
        /\ last' = Call("add_state", layer_id, is_initial_state)
        /\ roundtrip' = NoRoundtrip
        /\ pushed' = IF layer_id \in LayerIds
                     THEN [pushed EXCEPT ![layer_id] = LogPush(@, image)]
                     ELSE pushed
        /\ UNCHANGED <<max_depth, app>>
        /\ LayerManagerUnchanged

Undo(layer_id) ==
    LET r == undo(history_stacks, layer_id)
    IN  /\ history_stacks' = r.hs
        /\ ret' = r.ret
        /\ last' = Call("undo", layer_id, FALSE)
        /\ roundtrip' = IF Len(StacksOf(history_stacks, layer_id).undo) >= 2
                        THEN [stage |-> "undone", id |-> layer_id,
                              before |-> history_stacks[layer_id]]
                        ELSE NoRoundtrip
        /\ pushed' = IF layer_id \in LayerIds
                     THEN [pushed EXCEPT ![layer_id] = BrokenLog]
                     ELSE pushed
        /\ UNCHANGED <<max_depth, app>>
        /\ LayerManagerUnchanged

Redo(layer_id) ==
    LET r == redo(history_stacks, layer_id)
    IN  /\ history_stacks' = r.hs
        /\ ret' = r.ret
        /\ last' = Call("redo", layer_id, FALSE)
        /\ roundtrip' = IF roundtrip.stage = "undone" /\ roundtrip.id = layer_id
                        THEN [roundtrip EXCEPT !.stage = "redone"]
                        ELSE NoRoundtrip
        /\ pushed' = IF layer_id \in LayerIds
                     THEN [pushed EXCEPT ![layer_id] = BrokenLog]
                     ELSE pushed
        /\ UNCHANGED <<max_depth, app>>
        /\ LayerManagerUnchanged

\* can_undo and can_redo, called by _update_actions_enabled_state
CanUndo(layer_id) ==
    /\ history_stacks' = lookup(history_stacks, layer_id)
    /\ ret' = None
    /\ last' = Call("can_undo", layer_id, FALSE)
    /\ roundtrip' = NoRoundtrip
    /\ UNCHANGED <<max_depth, app, pushed>>
    /\ LayerManagerUnchanged

CanRedo(layer_id) ==
    /\ history_stacks' = lookup(history_stacks, layer_id)
    /\ ret' = None
    /\ last' = Call("can_redo", layer_id, FALSE)
    /\ roundtrip' = NoRoundtrip
    /\ UNCHANGED <<max_depth, app, pushed>>
    /\ LayerManagerUnchanged

ClearHistoryForLayer(layer_id) ==
    /\ history_stacks' = clear_history_for_layer(history_stacks, layer_id)
    /\ ret' = None
    /\ last' = Call("clear_history_for_layer", layer_id, FALSE)
    /\ roundtrip' = NoRoundtrip
    /\ pushed' = IF layer_id \in LayerIds
                 THEN [pushed EXCEPT ![layer_id] = EmptyLog]
                 ELSE pushed
    /\ UNCHANGED <<max_depth, app>>
    /\ LayerManagerUnchanged

ClearAllHistory ==
    /\ history_stacks' = clear_all_history(history_stacks)
    /\ ret' = None
    /\ last' = Call("clear_all_history", NoId, FALSE)
    /\ roundtrip' = NoRoundtrip
    /\ pushed' = [id \in LayerIds |-> EmptyLog]
    /\ UNCHANGED <<max_depth, app>>
    /\ LayerManagerUnchanged

HistoryNext ==
    \/ \E layer_id \in LayerIds \cup {NoId}, image \in SampleImages, init \in BOOLEAN :
           AddState(layer_id, image, init)
    \/ \E layer_id \in LayerIds \cup {NoId} : Undo(layer_id)
    \/ \E layer_id \in LayerIds \cup {NoId} : Redo(layer_id)
    \/ \E layer_id \in LayerIds \cup {NoId} : CanUndo(layer_id)
    \/ \E layer_id \in LayerIds \cup {NoId} : CanRedo(layer_id)
    \/ \E layer_id \in LayerIds \cup {NoId} : ClearHistoryForLayer(layer_id)
    \/ ClearAllHistory

Spec == HistoryInit /\ [][HistoryNext]_vars

(***************************************************************************)
(* Claims about HistoryManager, checked under Spec.                        *)
(***************************************************************************)
UndoOf(layer_id) == StacksOf(history_stacks, layer_id).undo
RedoOf(layer_id) == StacksOf(history_stacks, layer_id).redo

\* C2: after any sequence of add_state, undo, redo, clear_history_for_layer
\* and clear_all_history calls, the undo stack of every layer id holds at
\* most max_depth entries.
C2_UndoWithinMaxDepth ==
    \A layer_id \in DOMAIN history_stacks : Len(UndoOf(layer_id)) <= max_depth

\* C3: with s1 on top of the undo stack and s0 directly below it, undo
\* returns s0, and the redo that immediately follows returns s1 and leaves
\* the layer's undo and redo stacks as they were before the undo.
C3_UndoRedoRoundTrip ==
    LET before == roundtrip.before
        s1 == before.undo[Len(before.undo)]
        s0 == before.undo[Len(before.undo) - 1]
    IN  /\ roundtrip.stage = "undone" => ret = s0
        /\ roundtrip.stage = "redone" =>
               ret = s1 /\ history_stacks[roundtrip.id] = before

C3_Witness ==
    /\ roundtrip.stage = "redone"
    /\ last.op = "redo"
    /\ roundtrip.before.redo # <<>>
    /\ roundtrip.before.undo[Len(roundtrip.before.undo)]
           # roundtrip.before.undo[Len(roundtrip.before.undo) - 1]

\* C4: add_state with is_initial_state false leaves the layer's redo stack
\* empty, and add_state with is_initial_state true leaves it unchanged.
C4_NewEditClearsRedo ==
    [][ last'.op = "add_state" =>
            IF last'.init
            THEN StacksOf(history_stacks', last'.id).redo
                     = StacksOf(history_stacks, last'.id).redo
            ELSE StacksOf(history_stacks', last'.id).redo = <<>> ]_vars

C4_Witness ==
    /\ last.op = "add_state"
    /\ ~last.init
    /\ last.had_redo
    /\ ~can_redo(history_stacks, last.id)

\* C5: when the undo stack of a layer has at most one entry, or the layer id
\* has no history, undo returns None and changes nothing, so that repeating
\* it gives the same result.
C5_ExhaustedUndoIsNoOp ==
    [][ (last'.op = "undo" /\ Len(UndoOf(last'.id)) <= 1) =>
            ret' = None /\ history_stacks' = history_stacks ]_vars

C5_Witness ==
    /\ last.op = "undo"
    /\ ret = None
    /\ Len(UndoOf(last.id)) = 1
    /\ RedoOf(last.id) # <<>>

\* C6: starting from an empty history, after n > max_depth calls of
\* add_state the undo stack holds exactly the last max_depth pushed states,
\* in push order.
C6_DepthBoundKeepsNewest ==
    \A layer_id \in LayerIds :
        LET log == pushed[layer_id].log
        IN  (pushed[layer_id].ok /\ Len(log) > max_depth) =>
                UndoOf(layer_id) = SubSeq(log, Len(log) - max_depth + 1, Len(log))

C6_Witness ==
    \E layer_id \in LayerIds :
        LET log == pushed[layer_id].log
        IN  /\ pushed[layer_id].ok
            /\ Len(log) = max_depth + PushSlack
            /\ max_depth = MaxDepth
            /\ log[1] # log[Len(log)]
            /\ Len(UndoOf(layer_id)) = max_depth

(***************************************************************************)
(* SpecComposite: get_composite_image applied to every layer list of up to *)
(* MaxLayers layers, each with any image of the model (or none) and either *)
(* visibility.                                                             *)
(***************************************************************************)
LayerInputs == [image : Images \cup {None}, visible : BOOLEAN]

\* the list after add_layer(image=..., visible=...) for each input, in order
LayersOf(inputs) ==
    [i \in 1..Len(inputs) |->
        Layer(i, DefaultName(i), inputs[i].image, inputs[i].visible, DefaultOpacity, FALSE)]

CompositeInit ==
    /\ max_depth = DefaultMaxHistoryDepth
    /\ history_stacks = <<>>
    /\ ret = None
    /\ last = NoCall
    /\ roundtrip = NoRoundtrip
    /\ pushed = [id \in LayerIds |-> EmptyLog]
    /\ \E n \in 0..MaxLayers : \E inputs \in [1..n -> LayerInputs] :
           /\ layers = LayersOf(inputs)
           /\ active_layer_id = IF n = 0 THEN NoId ELSE 1
           /\ layer_name_counter = n + 1
    /\ composite = NotComputed
    /\ is_drawing_active = FALSE
    /\ drawing_canvas = None
    /\ app = NoApp
    /\ canvas = None
    /\ stroke = NoStroke

GetCompositeImage ==
    /\ composite' = get_composite_image(layers)
    /\ UNCHANGED <<max_depth, history_stacks, ret, last, roundtrip, pushed, layers,
                   active_layer_id, layer_name_counter,
                   is_drawing_active, drawing_canvas, app, canvas, stroke>>

CompositeNext == GetCompositeImage

SpecComposite == CompositeInit /\ [][CompositeNext]_vars

\* C35: undo returns an image exactly when can_undo held just before the
\* call, that is when the undo stack had more than one entry; redo returns
\* an image exactly when can_redo held, that is when the redo stack was not
\* empty; each call that returns an image moves exactly one entry from one
\* stack of the layer to the other.
C35_ReturnsImageIffCan ==
    [][ LET id == last'.id
            undo_before == UndoOf(id)
            redo_before == RedoOf(id)
            after == StacksOf(history_stacks', id)
        IN  /\ last'.op = "undo" =>
                   /\ (ret' # None) = can_undo(history_stacks, id)
                   /\ can_undo(history_stacks, id) = (Len(undo_before) > 1)
                   /\ ret' # None =>
                          /\ after.undo = Front(undo_before)
                          /\ after.redo = Append(redo_before, Last(undo_before))
            /\ last'.op = "redo" =>
                   /\ (ret' # None) = can_redo(history_stacks, id)
                   /\ can_redo(history_stacks, id) = (redo_before # <<>>)
                   /\ ret' # None =>
                          /\ after.redo = Front(redo_before)
                          /\ after.undo = Append(undo_before, Last(redo_before)) ]_vars

\* a redo has returned an image and left another entry on the redo stack
C35_Witness ==
    /\ last.op = "redo"
    /\ ret # None
    /\ RedoOf(last.id) # <<>>
    /\ Len(UndoOf(last.id)) = 2

\* C36: add_state, undo, redo and clear_history_for_layer called with one
\* layer id leave the stacks of every other layer id as they were, and
\* can_undo, can_redo, undo and redo called with an id that has no history
\* create no entry for it.
C36_HistoryPerLayer ==
    [][ /\ last'.op \in {"add_state", "undo", "redo", "clear_history_for_layer"} =>
               \A other \in LayerIds \ {last'.id} :
                   /\ (other \in DOMAIN history_stacks') = (other \in DOMAIN history_stacks)
                   /\ StacksOf(history_stacks', other) = StacksOf(history_stacks, other)
        /\ (/\ last'.op \in {"can_undo", "can_redo", "undo", "redo"}
            /\ last'.id \notin DOMAIN history_stacks) =>
               history_stacks' = history_stacks ]_vars

\* a query on a layer id without history, while another layer has history
C36_Witness ==
    /\ last.op \in {"can_undo", "can_redo"}
    /\ last.id \in LayerIds
    /\ last.id \notin DOMAIN history_stacks
    /\ \E other \in DOMAIN history_stacks : Len(UndoOf(other)) = 2

\* C39: no call of undo takes the branch that finds the undo stack empty
\* after the pop and pushes the popped entry back.
C39_DefensiveBranchUnreached ==
    [][ last'.op = "undo" => undo_path(history_stacks, last'.id) # "push_back" ]_vars

\* an undo has popped the second of two entries: one entry is left
C39_Witness ==
    /\ last.op = "undo"
    /\ ret # None
    /\ Len(UndoOf(last.id)) = 1
    /\ Len(RedoOf(last.id)) = 1

(***************************************************************************)
(* Claims about the compositor, checked under SpecComposite.               *)
(***************************************************************************)
RemoveAt(ls, i) == SubSeq(ls, 1, i - 1) \o SubSeq(ls, i + 1, Len(ls))
WithVisible(ls, i, visible) == [ls EXCEPT ![i].visible = visible]
Computed == composite # NotComputed

\* C8 as stated: for every layer L, the composite with L invisible equals the
\* composite of the same stack with L removed.
C8_InvisibleEqualsRemoved ==
    Computed =>
        \A i \in 1..Len(layers) :
            ~layers[i].visible => composite = get_composite_image(RemoveAt(layers, i))

\* C8 as amended: when some other layer of the stack is visible and has an
\* image, the composite with L invisible equals the composite of the same
\* stack with L removed.
C8_InvisibleEqualsRemovedWhenOtherDrawn ==
    Computed =>
        \A i \in 1..Len(layers) :
            (~layers[i].visible /\ Drawn(layers) # {}) =>
                composite = get_composite_image(RemoveAt(layers, i))

C8_Witness ==
    /\ Computed
    /\ \E i \in 1..Len(layers) :
           /\ ~layers[i].visible
           /\ layers[i].image # None
           /\ Drawn(layers) # {}
           /\ layers[i].image.size # composite.size
           /\ get_composite_image(WithVisible(layers, i, TRUE)) # composite

\* C9: for same-sized visible layers the composite is the bottom-to-top fold
\* of "over" from a transparent canvas: each pixel is the topmost visible
\* layer's pixel over the composite of the layers below it, which is that
\* layer's pixel where it is fully opaque and the composite of the layers
\* below where it is fully transparent.
SameSizedDrawn(ls) ==
    /\ Drawn(ls) # {}
    /\ \A i, j \in Drawn(ls) : ls[i].image.size = ls[j].image.size

TopDrawn(ls) == CHOOSE i \in Drawn(ls) : \A j \in Drawn(ls) : j <= i

\* the composite of the layers below layer t, at pixel p
BelowPixel(ls, t, p) ==
    LET below == SubSeq(ls, 1, t - 1)
    IN  IF Drawn(below) = {} THEN Transparent ELSE get_composite_image(below).px[p]

C9_BottomToTopOver ==
    (Computed /\ SameSizedDrawn(layers)) =>
        LET t == TopDrawn(layers)
            top == layers[t].image
        IN  /\ composite.size = top.size
            /\ \A p \in 1..Len(top.px) :
                   /\ composite.px[p] = AlphaCompositePixel(BelowPixel(layers, t, p), top.px[p])
                   /\ top.px[p][4] = 255 => composite.px[p] = top.px[p]
                   /\ top.px[p][4] = 0 => composite.px[p] = BelowPixel(layers, t, p)

C9_Witness ==
    /\ Computed
    /\ SameSizedDrawn(layers)
    /\ Cardinality(Drawn(layers)) >= 2
    /\ LET t == TopDrawn(layers)
           top == layers[t].image
       IN  \E p, q \in 1..Len(top.px) :
               /\ top.px[p][4] = 255
               /\ BelowPixel(layers, t, p)[4] # 0
               /\ BelowPixel(layers, t, p) # top.px[p]
               /\ top.px[q][4] = 0
               /\ BelowPixel(layers, t, q)[4] # 0

\* C10 as stated: get_composite_image on a layer stack with no layers
\* returns a 1x1 fully transparent image.
C10_NoLayersGivesEmptyImage ==
    (Computed /\ layers = <<>>) => composite = ImageNew(1, 1, Transparent)

\* C10 as amended: get_composite_image on a layer stack with no layers
\* returns None.
C10_NoLayersGivesNone ==
    (Computed /\ layers = <<>>) => composite = None

C10_Witness ==
    /\ layers = <<>>
    /\ Computed
    /\ composite = None

\* C11: the composite's dimensions equal those of the lowest-index layer that
\* is both visible and has an image; when no layer is visible they equal
\* those of the first layer whatever its visibility; when no layer has an
\* image the 1x1 transparent image is returned.
C11_CompositeSize ==
    (Computed /\ layers # <<>>) =>
        IF \E i \in 1..Len(layers) : layers[i].visible /\ layers[i].image # None
        THEN LET lowest == CHOOSE i \in 1..Len(layers) :
                               /\ layers[i].visible /\ layers[i].image # None
                               /\ \A j \in 1..(i - 1) :
                                      ~(layers[j].visible /\ layers[j].image # None)
             IN  composite.size = layers[lowest].image.size
        ELSE IF \A i \in 1..Len(layers) : layers[i].image = None
        THEN composite = ImageNew(1, 1, Transparent)
        ELSE IF \A i \in 1..Len(layers) : ~layers[i].visible
        THEN layers[1].image # None /\ composite.size = layers[1].image.size
        ELSE TRUE

\* a canvas-sized image whose top-left region holds the pixels of image
\* unchanged and whose other pixels are fully transparent
PadTopLeft(w, h, image) ==
    [size |-> <<w, h>>,
     px |-> [i \in 1..(w * h) |->
                LET x == (i - 1) % w
                    y == (i - 1) \div w
                IN  IF x < image.size[1] /\ y < image.size[2]
                    THEN image.px[y * image.size[1] + x + 1]
                    ELSE Transparent]]

\* C12: a visible layer whose dimensions differ from the canvas contributes
\* to the composite exactly as a canvas-sized layer would whose top-left
\* region holds that layer's pixels unchanged (same colour, same alpha) and
\* whose remaining pixels are fully transparent. Stated for the layers that
\* fit in the canvas.
C12_OddSizedLayerPlacedTopLeft ==
    (Computed /\ Drawn(layers) # {}) =>
        \A i \in Drawn(layers) :
            LET image == layers[i].image
                w == composite.size[1]
                h == composite.size[2]
            IN  (image.size # composite.size /\ image.size[1] <= w /\ image.size[2] <= h) =>
                    composite =
                        get_composite_image([layers EXCEPT ![i].image = PadTopLeft(w, h, image)])

\* the stack with the opacity fields replaced by those of f
Opacities == {0, 50, DefaultOpacity}
WithOpacity(ls, f) == [i \in 1..Len(ls) |-> [ls[i] EXCEPT !.opacity = f[i]]]

\* C13: the composite does not depend on any layer's opacity field: two
\* stacks that differ only in the opacity values of their layers produce
\* identical composites.
C13_OpacityNotApplied ==
    Computed =>
        \A f \in [1..Len(layers) -> Opacities] :
            get_composite_image(WithOpacity(layers, f)) = composite

C13_Witness ==
    /\ Computed
    /\ Cardinality(Drawn(layers)) >= 2
    /\ \A i \in Drawn(layers) : \E p \in 1..Len(layers[i].image.px) :
           layers[i].image.px[p][4] # 0
    /\ \E f \in [1..Len(layers) -> Opacities] :
           /\ \A i \in 1..Len(layers) : f[i] # layers[i].opacity
           /\ get_composite_image(WithOpacity(layers, f)) = composite

(***************************************************************************)
(* SpecLayers: the LayerManager API (add_layer, set_active_layer_by_id,    *)
(* clear_all_layers) called in any order with any arguments.               *)
(***************************************************************************)
LayersInit ==
    /\ max_depth = DefaultMaxHistoryDepth
    /\ history_stacks = <<>>
    /\ ret = None
    /\ last = NoCall
    /\ roundtrip = NoRoundtrip
    /\ pushed = [id \in LayerIds |-> EmptyLog]
    /\ layers = <<>>
    /\ active_layer_id = NoId
    /\ layer_name_counter = 1
    /\ composite = NotComputed
    /\ is_drawing_active = FALSE
    /\ drawing_canvas = None
    /\ app = NoApp
    /\ canvas = None
    /\ stroke = NoStroke

\* the call made, its arguments and the manager's state before it
LayerCall(op, layer_id, position) ==
    [op |-> op, id |-> layer_id, position |-> position,
     before |-> [layers |-> layers, active |-> active_layer_id]]

HistoryUnchanged ==
    UNCHANGED <<max_depth, history_stacks, ret, roundtrip, pushed, composite,
                is_drawing_active, drawing_canvas, app, canvas, stroke>>

AddLayer(name, image, position, visible) ==
    LET new_id == Uuid4(layers, <<>>)
        r == add_layer(layers, active_layer_id, layer_name_counter, new_id, name, image,
                       position, visible, DefaultOpacity, FALSE)
    IN  /\ Len(layers) < MaxListLayers
        /\ layers' = r.layers
        /\ active_layer_id' = r.active
        /\ layer_name_counter' = r.counter
        /\ last' = LayerCall("add_layer", new_id, position)
        /\ HistoryUnchanged

SetActiveLayerById(layer_id) ==
    /\ active_layer_id' = set_active_layer_by_id(layers, layer_id)
    /\ last' = LayerCall("set_active_layer_by_id", layer_id, NoPosition)
    /\ UNCHANGED <<layers, layer_name_counter>>
    /\ HistoryUnchanged

ClearAllLayers ==
    /\ layers' = clear_all_layers.layers
    /\ active_layer_id' = clear_all_layers.active
    /\ layer_name_counter' = clear_all_layers.counter
    /\ last' = LayerCall("clear_all_layers", NoId, NoPosition)
    /\ HistoryUnchanged

LayersNext ==
    \/ \E name \in {None, Name("Base")}, image \in {None, ImageNew(1, 1, OpaqueRed)},
          position \in {NoPosition} \cup 0..MaxListLayers :
           AddLayer(name, image, position, TRUE)
    \/ \E layer_id \in {NoId} \cup 1..(MaxListLayers + 1) : SetActiveLayerById(layer_id)
    \/ ClearAllLayers

SpecLayers == LayersInit /\ [][LayersNext]_vars

(***************************************************************************)
(* Claims about the layer list, checked under SpecLayers.                  *)
(***************************************************************************)
IdsOf(ls) == {ls[i].id : i \in 1..Len(ls)}

\* C14: after every completed operation of any sequence of add_layer,
\* set_active_layer_by_id and clear_all_layers, if the layer list is
\* non-empty then the active layer id references a layer of the list.
C14_ActiveIdInList ==
    layers # <<>> => active_layer_id \in IdsOf(layers)

\* C15: add_layer makes the new layer active when it is the only layer in
\* the list afterwards or when no active layer was set before the call; in
\* every other case the active layer id is left unchanged.
C15_AddLayerActivation ==
    last.op = "add_layer" =>
        active_layer_id = IF Len(layers) = 1 \/ last.before.active = NoId
                          THEN last.id
                          ELSE last.before.active

C15_Witness ==
    /\ last.op = "add_layer"
    /\ Len(layers) >= 2
    /\ last.before.active = NoId
    /\ active_layer_id = last.id

\* C16: set_active_layer_by_id(id) makes id the active layer when a layer
\* with that id is in the list, and otherwise clears the active selection
\* even if a valid layer was active before; the layer list is never changed.
C16_SetActiveOrClear ==
    last.op = "set_active_layer_by_id" =>
        /\ layers = last.before.layers
        /\ active_layer_id = IF last.id \in IdsOf(layers) THEN last.id ELSE NoId

C16_Witness ==
    /\ last.op = "set_active_layer_by_id"
    /\ last.id \notin IdsOf(layers)
    /\ last.before.active \in IdsOf(layers)
    /\ active_layer_id = NoId

\* C17: add_layer with position p (0 <= p < current length) puts the new
\* layer at index p, and with no position or p >= current length puts it at
\* the top; in both cases the list grows by exactly one and the existing
\* layers keep their relative bottom-to-top order.
C17_AddLayerPosition ==
    last.op = "add_layer" =>
        LET before == last.before.layers
            p == last.position
            index == IF 0 <= p /\ p < Len(before) THEN p + 1 ELSE Len(before) + 1
        IN  /\ Len(layers) = Len(before) + 1
            /\ layers[index].id = last.id
            /\ RemoveAt(layers, index) = before

C17_Witness ==
    /\ last.op = "add_layer"
    /\ Len(last.before.layers) >= 2
    /\ last.position = 1
    /\ layers[2].id = last.id
    /\ layers[1] = last.before.layers[1]
    /\ layers[3] = last.before.layers[2]

\* C37: after any sequence of add_layer, set_active_layer_by_id and
\* clear_all_layers the active layer id is None or the id of a layer of the
\* list, and get_active_layer returns None exactly when the active id is
\* None.
C37_ActiveIdNoneOrInList ==
    /\ active_layer_id = NoId \/ active_layer_id \in IdsOf(layers)
    /\ (get_active_layer(layers, active_layer_id) = None) = (active_layer_id = NoId)

\* set_active_layer_by_id with an id that is not in the list has cleared a
\* valid selection, and the list still holds layers
C37_Witness ==
    /\ last.op = "set_active_layer_by_id"
    /\ last.id # NoId
    /\ last.id \notin IdsOf(layers)
    /\ last.before.active \in IdsOf(layers)
    /\ Len(layers) >= 2
    /\ get_active_layer(layers, active_layer_id) = None

\* C38: an operation of the layer manager that changes the active layer id
\* emits active_layer_changed exactly once, and one that leaves the id as it
\* was does not emit it.
C38_ActiveChangeAnnouncedOnce ==
    [][ last'.op \in {"add_layer", "set_active_layer_by_id", "clear_all_layers"} =>
            Len(active_layer_changed_calls(last'.op, active_layer_id, layers', last'.id))
                = IF active_layer_id' # active_layer_id THEN 1 ELSE 0 ]_vars

(***************************************************************************)
(* SpecApp: the operations of ImageEditorWindow on the layers, the history *)
(* and the drawing session. Every image of the window is modelled at one   *)
(* size, 1x1; dialogs are modelled by the answer they return.              *)
(***************************************************************************)
\* the state the window's operations read and write
AppState ==
    [layers |-> layers, active |-> active_layer_id, counter |-> layer_name_counter,
     hs |-> history_stacks,
     drawing_active |-> is_drawing_active, canvas |-> drawing_canvas]

\* active_layer.image = image, image a new object
SetImage(ls, layer_id, image) ==
    [i \in 1..Len(ls) |->
        IF ls[i].id = layer_id
        THEN [ls[i] EXCEPT !.image = image, !.image_is_original_image = FALSE]
        ELSE ls[i]]

\* drawing_canvas.hide(); deleteLater(); drawing_canvas = None; is_drawing_active = False
DiscardDrawing(st) == [st EXCEPT !.canvas = None, !.drawing_active = FALSE]

PenColours == {OpaqueRed}

\* start_drawing_session
start_drawing_session(st) ==
    LET active_layer == get_active_layer(st.layers, st.active)
    IN  IF active_layer = None \/ active_layer.image = None THEN st
        ELSE [st EXCEPT !.canvas = IF st.canvas = None
                                   THEN ImageNew(1, 1, Transparent)
                                   ELSE st.canvas,
                        !.drawing_active = TRUE]

\* the except-branch of apply_drawing_to_layer
DrawingFailureHandler(st, active_layer) ==
    IF can_undo(st.hs, active_layer.id)
    THEN LET r == undo(st.hs, active_layer.id)
         IN  [st EXCEPT !.hs = r.hs,
                        !.layers = IF r.ret # None
                                   THEN SetImage(st.layers, active_layer.id, r.ret)
                                   ELSE st.layers]
    ELSE st

\* apply_drawing_to_layer; outcome: "ok", "raises_early" (reading the canvas
\* image raises) or "raises_late" (compositing raises)
apply_drawing_to_layer(st, outcome) ==
    LET active_layer == get_active_layer(st.layers, st.active)
    IN  IF st.canvas = None \/ ~st.drawing_active \/ active_layer = None
        THEN st
        ELSE IF active_layer.image = None THEN st
        ELSE IF outcome = "raises_early" THEN DrawingFailureHandler(st, active_layer)
        ELSE LET st1 == [DiscardDrawing(st) EXCEPT
                            !.hs = add_state(st.hs, max_depth, active_layer.id,
                                             copy(active_layer.image), FALSE)]
                 base_pil == alpha_composite(copy(active_layer.image), st.canvas)
             IN  IF outcome = "raises_late" THEN DrawingFailureHandler(st1, active_layer)
                 ELSE [st1 EXCEPT !.layers = SetImage(st.layers, active_layer.id, base_pil)]

DrawingOutcomes == {"ok", "raises_early", "raises_late"}

\* _apply_filter_to_active_layer; reply: the answer to the unapplied-drawing
\* question, drawing: the outcome of apply_drawing_to_layer when it is Apply,
\* processed: the filter's result, None, or "raises"
Raises == [raises |-> TRUE]
apply_filter_to_active_layer(st, reply, drawing, processed) ==
    LET active_layer == get_active_layer(st.layers, st.active)
        asked == st.drawing_active /\ st.canvas # None
        st1 == IF ~asked THEN st
               ELSE IF reply = "Apply" THEN apply_drawing_to_layer(st, drawing)
               ELSE DiscardDrawing(st)
        image == get_active_layer(st1.layers, st1.active).image
        hs1 == add_state(st1.hs, max_depth, active_layer.id, copy(image), FALSE)
    IN  IF active_layer = None THEN st
        ELSE IF active_layer.image = None THEN st
        ELSE IF asked /\ reply = "Cancel" THEN st
        ELSE IF processed # None /\ processed # Raises
             THEN [st1 EXCEPT !.hs = hs1,
                              !.layers = SetImage(st1.layers, active_layer.id, processed)]
             ELSE [st1 EXCEPT !.hs = IF can_undo(hs1, active_layer.id)
                                     THEN undo(hs1, active_layer.id).hs
                                     ELSE hs1]

\* apply_gradient_to_active_layer, the dialogs accepted; gradient: the image
\* create_linear_gradient returns, or "raises"
apply_gradient_to_active_layer_push_after(st, gradient) ==
    LET active_layer == get_active_layer(st.layers, st.active)
    IN  IF active_layer = None THEN st
        ELSE IF active_layer.image = None \/ gradient = Raises THEN st
        ELSE [st EXCEPT !.hs = add_state(st.hs, max_depth, active_layer.id,
                                         copy(gradient), FALSE),
                        !.layers = SetImage(st.layers, active_layer.id, gradient)]
apply_gradient_to_active_layer(st, gradient) ==
    LET active_layer == get_active_layer(st.layers, st.active)
    IN  IF active_layer = None THEN st
        ELSE IF active_layer.image = None \/ gradient = Raises THEN st
        ELSE [st EXCEPT !.hs = add_state(st.hs, max_depth, active_layer.id,
                                         copy(active_layer.image), FALSE),
                        !.layers = SetImage(st.layers, active_layer.id, gradient)]

\* reset_active_layer_to_original
reset_active_layer_to_original_without_copy(st) ==
    LET active_layer == get_active_layer(st.layers, st.active)
    IN  IF active_layer = None THEN st
        ELSE IF active_layer.original_image = None THEN st
        ELSE LET hs1 == add_state(st.hs, max_depth, active_layer.id,
                                  copy(active_layer.image), FALSE)
                 hs2 == clear_history_for_layer(hs1, active_layer.id)
             IN  [st EXCEPT !.layers = [i \in 1..Len(st.layers) |->
                                          IF st.layers[i].id = active_layer.id
                                          THEN [st.layers[i] EXCEPT
                                                   !.image = st.layers[i].original_image,
                                                   !.image_is_original_image = TRUE]
                                          ELSE st.layers[i]],
                            !.hs = add_state(hs2, max_depth, active_layer.id,
                                             copy(active_layer.original_image), TRUE)]
reset_active_layer_to_original_keeps_history(st) ==
    LET active_layer == get_active_layer(st.layers, st.active)
    IN  IF active_layer = None THEN st
        ELSE IF active_layer.original_image = None THEN st
        ELSE LET image == copy(active_layer.original_image)
                 hs1 == add_state(st.hs, max_depth, active_layer.id,
                                  copy(active_layer.image), FALSE)
             IN  [st EXCEPT !.layers = SetImage(st.layers, active_layer.id, image),
                            !.hs = add_state(hs1, max_depth, active_layer.id,
                                             copy(image), TRUE)]
reset_active_layer_to_original(st) ==
    LET active_layer == get_active_layer(st.layers, st.active)
    IN  IF active_layer = None THEN st
        ELSE IF active_layer.original_image = None THEN st
        ELSE LET image == copy(active_layer.original_image)
                 hs1 == add_state(st.hs, max_depth, active_layer.id,
                                  copy(active_layer.image), FALSE)
                 hs2 == clear_history_for_layer(hs1, active_layer.id)
             IN  [st EXCEPT !.layers = SetImage(st.layers, active_layer.id, image),
                            !.hs = add_state(hs2, max_depth, active_layer.id,
                                             copy(image), TRUE)]

\* trigger_undo
trigger_undo(st) ==
    LET active_layer == get_active_layer(st.layers, st.active)
    IN  IF active_layer = None THEN st
        ELSE IF ~can_undo(st.hs, active_layer.id) THEN st
        ELSE LET r == undo(st.hs, active_layer.id)
             IN  [st EXCEPT !.hs = r.hs,
                            !.layers = IF r.ret # None
                                       THEN SetImage(st.layers, active_layer.id, r.ret)
                                       ELSE st.layers]

\* trigger_redo
trigger_redo(st) ==
    LET active_layer == get_active_layer(st.layers, st.active)
    IN  IF active_layer = None THEN st
        ELSE IF ~can_redo(st.hs, active_layer.id) THEN st
        ELSE LET r == redo(st.hs, active_layer.id)
             IN  [st EXCEPT !.hs = r.hs,
                            !.layers = IF r.ret # None
                                       THEN SetImage(st.layers, active_layer.id, r.ret)
                                       ELSE st.layers]

\* the layer_manager.add_layer call of the window's handlers, then
\* set_active_layer_by_id(new layer)
AddLayerAndSelect(st, name, image) ==
    LET r == add_layer(st.layers, st.active, st.counter, Uuid4(st.layers, st.hs), name,
                       image, NoPosition, TRUE, DefaultOpacity, TRUE)
    IN  [st EXCEPT !.layers = r.layers,
                   !.active = set_active_layer_by_id(r.layers, r.layer.id),
                   !.counter = r.counter]

ClearLayersAndHistory(st) ==
    [st EXCEPT !.layers = clear_all_layers.layers, !.active = clear_all_layers.active,
               !.counter = clear_all_layers.counter, !.hs = clear_all_history(st.hs)]

\* create_new_image_dialog; accepted: both size dialogs were confirmed
create_new_image_dialog(st, accepted) ==
    LET st1 == DiscardDrawing(st)
        st2 == IF ~has_layers(st1.layers) THEN ClearLayersAndHistory(st1) ELSE st1
        layer_name == IF has_layers(st2.layers)
                      THEN DefaultName(st2.counter)
                      ELSE Name("Background")
    IN  IF ~accepted THEN st1
        ELSE AddLayerAndSelect(st2, layer_name, ImageNew(1, 1, OpaqueWhite))

\* open_image_dialog; opened: the decoded image, None when the dialog was
\* cancelled, "raises" when Image.open fails
open_image_dialog(st, opened) ==
    LET st1 == DiscardDrawing(st)
        st2 == IF ~has_layers(st1.layers) \/ get_active_layer(st1.layers, st1.active) = None
               THEN ClearLayersAndHistory(st1)
               ELSE st1
    IN  IF opened = None THEN st1
        ELSE IF opened = Raises THEN st2
        ELSE AddLayerAndSelect(st2, Name("file"), opened)

\* add_new_layer_action
add_new_layer_action(st) ==
    AddLayerAndSelect(st, None, ImageNew(1, 1, Transparent))

\* on_layer_selection_changed_in_listwidget; layer_id: the id of the item
\* selected, NoId when the selection was cleared
on_layer_selection_changed_in_listwidget(st, layer_id) ==
    [DiscardDrawing(st) EXCEPT !.active = set_active_layer_by_id(st.layers, layer_id)]

\* close_all_documents, confirmed
close_all_documents(st) == DiscardDrawing(ClearLayersAndHistory(st))

AppInit ==
    /\ max_depth = DefaultMaxHistoryDepth
    /\ history_stacks = <<>>
    /\ ret = None
    /\ last = NoCall
    /\ roundtrip = NoRoundtrip
    /\ pushed = [id \in LayerIds |-> EmptyLog]
    /\ layers = <<>>
    /\ active_layer_id = NoId
    /\ layer_name_counter = 1
    /\ composite = NotComputed
    /\ is_drawing_active = FALSE
    /\ drawing_canvas = None
    /\ app = NoApp
    /\ canvas = None
    /\ stroke = NoStroke

\* the active layer's image, None when there is no active layer
ActiveImage(ls, active_id) ==
    IF get_active_layer(ls, active_id) = None THEN None
    ELSE get_active_layer(ls, active_id).image

\* one operation of the window: the state st afterwards; app records the
\* operation, what it came to, and the active layer and its image before it
AppStep(st, op, outcome) ==
    /\ Len(st.layers) <= MaxAppLayers
    /\ TotalEntries(st.hs) <= MaxAppEntries
    /\ layers' = st.layers
    /\ active_layer_id' = st.active
    /\ layer_name_counter' = st.counter
    /\ history_stacks' = st.hs
    /\ is_drawing_active' = st.drawing_active
    /\ drawing_canvas' = st.canvas
    /\ app' = [op |-> op, outcome |-> outcome, id |-> active_layer_id,
               before |-> ActiveImage(layers, active_layer_id)]
    /\ UNCHANGED <<max_depth, ret, last, roundtrip, pushed, composite, canvas, stroke>>

CreateNewImage ==
    \E accepted \in BOOLEAN :
        AppStep(create_new_image_dialog(AppState, accepted), "new_image",
                IF accepted THEN "ok" ELSE "cancel")

OpenImage ==
    \E opened \in {ImageNew(1, 1, OpaqueRed), None, Raises} :
        AppStep(open_image_dialog(AppState, opened), "open_image",
                IF opened = None THEN "cancel" ELSE IF opened = Raises THEN "raises" ELSE "ok")

AddNewLayer == AppStep(add_new_layer_action(AppState), "add_layer", "ok")

SelectLayer ==
    \E layer_id \in {layers[i].id : i \in 1..Len(layers)} \cup {NoId} :
        AppStep(on_layer_selection_changed_in_listwidget(AppState, layer_id), "select", "ok")

CloseAll == AppStep(close_all_documents(AppState), "close_all", "ok")

\* there is an unapplied drawing: a filter asks what to do with it
Asked == is_drawing_active /\ drawing_canvas # None

StartDrawingSession == AppStep(start_drawing_session(AppState), "start_drawing", "ok")

\* pointer events on the drawing canvas, taken together: the canvas image
\* becomes one painted with a pen colour
Draw ==
    /\ drawing_canvas # None
    /\ \E colour \in PenColours :
           AppStep([AppState EXCEPT !.canvas = ImageNew(1, 1, colour)], "draw", "ok")

\* clear_drawing_canvas_content
ClearDrawing ==
    AppStep([AppState EXCEPT !.canvas = IF drawing_canvas # None /\ is_drawing_active
                                        THEN ImageNew(1, 1, Transparent)
                                        ELSE drawing_canvas],
            "clear_drawing", "ok")

\* "noop" when there is no drawing or no layer to apply it to
ApplyDrawing ==
    \E outcome \in DrawingOutcomes :
        AppStep(apply_drawing_to_layer(AppState, outcome), "apply_drawing",
                IF Asked /\ get_active_layer(layers, active_layer_id) # None
                THEN outcome ELSE "noop")

\* what a filter call came to: "noop" (no layer, or cancelled), "ok", or
\* "failed" (the filter raised or returned None); "+drawing" when the
\* unapplied drawing was applied first
FilterOutcome(reply, processed) ==
    LET active_layer == get_active_layer(layers, active_layer_id)
    IN  IF active_layer = None \/ (Asked /\ reply = "Cancel") THEN "noop"
        ELSE IF Asked /\ reply = "Apply"
             THEN (IF processed \in {None, Raises} THEN "failed+drawing" ELSE "ok+drawing")
        ELSE IF processed \in {None, Raises} THEN "failed" ELSE "ok"

ApplyFilter ==
    \E reply \in IF Asked THEN {"Apply", "Discard", "Cancel"} ELSE {"Discard"} :
    \E drawing \in IF Asked /\ reply = "Apply" THEN DrawingOutcomes ELSE {"ok"} :
    \E processed \in SampleImages \cup {None, Raises} :
        AppStep(apply_filter_to_active_layer(AppState, reply, drawing, processed),
                "filter", FilterOutcome(reply, processed))

ApplyGradient ==
    \E gradient \in SampleImages \cup {Raises} :
        AppStep(apply_gradient_to_active_layer(AppState, gradient), "gradient",
                IF get_active_layer(layers, active_layer_id) = None THEN "noop"
                ELSE IF gradient = Raises THEN "raises" ELSE "ok")

ResetLayer == AppStep(reset_active_layer_to_original(AppState), "reset", "ok")

\* "ok" when an image came back from the history, "noop" otherwise
TriggerUndo ==
    AppStep(trigger_undo(AppState), "undo",
            IF can_undo(history_stacks, active_layer_id) THEN "ok" ELSE "noop")

TriggerRedo ==
    AppStep(trigger_redo(AppState), "redo",
            IF can_redo(history_stacks, active_layer_id) THEN "ok" ELSE "noop")

AppNext ==
    \/ CreateNewImage
    \/ OpenImage
    \/ AddNewLayer
    \/ SelectLayer
    \/ CloseAll
    \/ StartDrawingSession
    \/ Draw
    \/ ClearDrawing
    \/ ApplyDrawing
    \/ ApplyFilter
    \/ ApplyGradient
    \/ ResetLayer
    \/ TriggerUndo
    \/ TriggerRedo

SpecApp == AppInit /\ [][AppNext]_vars

(***************************************************************************)
(* Claims about the editor window, checked under SpecApp.                  *)
(***************************************************************************)
ActiveLayer == get_active_layer(layers, active_layer_id)

\* C1: after every completed operation, whenever the active layer's undo
\* stack is non-empty its top entry equals the layer's current image.
C1_UndoTopIsCurrentImage ==
    (ActiveLayer # None /\ UndoOf(active_layer_id) # <<>>) =>
        Last(UndoOf(active_layer_id)) = ActiveLayer.image

\* C7: when applying a filter to the active layer fails, the layer's image
\* is unchanged and the layer's undo and redo stacks are equal to what they
\* were before the attempt.
C7_FailedFilterRollsBack ==
    [][ (app'.op = "filter" /\ app'.outcome = "failed") =>
            /\ layers' = layers
            /\ StacksOf(history_stacks', active_layer_id)
                   = StacksOf(history_stacks, active_layer_id) ]_vars

\* the operations that need an active layer
LayerOps == {"undo", "redo", "filter", "gradient", "reset", "start_drawing", "apply_drawing"}

\* C23: when there is no active layer, each of undo, redo, filter
\* application, gradient fill, reset-to-original, starting a drawing session
\* and committing a drawing leaves the layer list, every layer's image, every
\* history stack and the drawing-session state unchanged.
C23_NoActiveLayerNoOp ==
    [][ (app'.op \in LayerOps /\ ~\E i \in 1..Len(layers) : layers[i].id = active_layer_id) =>
            /\ layers' = layers
            /\ history_stacks' = history_stacks
            /\ is_drawing_active' = is_drawing_active
            /\ drawing_canvas' = drawing_canvas ]_vars

\* a filter was asked for with no active layer, on a stack whose layer has
\* history
C23_Witness ==
    /\ app.op = "filter"
    /\ app.id = NoId
    /\ active_layer_id = NoId
    /\ layers # <<>>
    /\ \E id \in DOMAIN history_stacks : history_stacks[id].undo # <<>>

\* C24: after reset_active_layer_to_original on a layer that has an original
\* snapshot, the layer's image equals the original, its undo stack holds
\* exactly one entry equal to the original, its redo stack is empty, and
\* therefore can_undo and can_redo are both false for that layer.
C24_ResetToOriginal ==
    [][ (/\ app'.op = "reset"
         /\ ActiveLayer # None
         /\ ActiveLayer.original_image # None) =>
            LET original == ActiveLayer.original_image
                stacks == StacksOf(history_stacks', active_layer_id)
            IN  /\ ActiveImage(layers', active_layer_id') = original
                /\ stacks.undo = <<original>>
                /\ stacks.redo = <<>>
                /\ ~can_undo(history_stacks', active_layer_id)
                /\ ~can_redo(history_stacks', active_layer_id) ]_vars

\* a layer that was edited twice and had one edit undone was reset
C24_Witness ==
    /\ app.op = "reset"
    /\ ActiveLayer # None
    /\ ActiveLayer.original_image # None
    /\ app.before # ActiveLayer.original_image
    /\ ActiveLayer.image = ActiveLayer.original_image

\* C25: a layer's original snapshot is fixed at creation: no sequence of
\* filters, gradient fills, drawing commits, undos, redos or resets ever
\* changes it, and a reset never makes the layer's live image share storage
\* with it (the live image is a copy).
C25_OriginalIsFixed ==
    /\ [][ app'.op \in {"filter", "gradient", "apply_drawing", "undo", "redo", "reset"} =>
               /\ Len(layers') = Len(layers)
               /\ \A i \in 1..Len(layers) :
                      /\ layers'[i].id = layers[i].id
                      /\ layers'[i].original_image = layers[i].original_image ]_vars
    /\ [](app.op = "reset" =>
              \A i \in 1..Len(layers) : ~layers[i].image_is_original_image)

\* a layer was edited and then reset, and its image was edited again: the
\* image differs from the original snapshot
C25_Witness ==
    /\ app.op \in {"filter", "gradient"}
    /\ app.outcome = "ok"
    /\ ActiveLayer # None
    /\ ActiveLayer.original_image # None
    /\ app.before = ActiveLayer.original_image
    /\ ActiveLayer.image # ActiveLayer.original_image
    /\ UndoOf(active_layer_id) = <<ActiveLayer.original_image, ActiveLayer.original_image>>

\* the operations that edit the active layer's image
Edits == {"filter", "gradient", "apply_drawing"}

\* C27: every successful edit of a layer (filter, gradient fill, drawing
\* commit) pushes exactly one history entry, equal to a copy of the layer's
\* image as it was before the edit, and that push happens before the layer's
\* image is replaced; undo and redo write the returned image into the layer
\* without pushing.
C27_EditPushesImageBefore ==
    [][ LET before == StacksOf(history_stacks, active_layer_id)
            after == StacksOf(history_stacks', active_layer_id)
        IN  /\ (app'.op \in Edits /\ app'.outcome = "ok") =>
                   /\ after.undo = Append(before.undo, ActiveLayer.image)
                   /\ after.redo = <<>>
            /\ (app'.op = "undo" /\ app'.outcome = "ok") =>
                   /\ after.undo = Front(before.undo)
                   /\ after.redo = Append(before.redo, Last(before.undo))
                   /\ ActiveImage(layers', active_layer_id') = Last(after.undo)
            /\ (app'.op = "redo" /\ app'.outcome = "ok") =>
                   /\ after.undo = Append(before.undo, Last(before.redo))
                   /\ after.redo = Front(before.redo)
                   /\ ActiveImage(layers', active_layer_id') = Last(before.redo) ]_vars

\* a second edit of a layer changed its image
C27_Witness ==
    /\ app.op \in Edits
    /\ app.outcome = "ok"
    /\ ActiveLayer # None
    /\ app.before # ActiveLayer.image
    /\ Len(UndoOf(active_layer_id)) = 2
    /\ Last(UndoOf(active_layer_id)) = app.before

\* C28: in the application, whenever trigger_undo changes the active layer's
\* image right after an edit, the new image equals the image the layer had
\* immediately before that most recent edit (undo steps back exactly one
\* edit).
C28_UndoStepsBackOneEdit ==
    [][ (/\ app.op \in Edits
         /\ app.outcome = "ok"
         /\ app.id = active_layer_id
         /\ app'.op = "undo"
         /\ ActiveImage(layers', active_layer_id') # ActiveLayer.image) =>
            ActiveImage(layers', active_layer_id') = app.before ]_vars

\* C29: in the application, a trigger_undo that succeeds followed
\* immediately by trigger_redo on the same active layer leaves the layer's
\* image equal to what it was before the undo.
C29_UndoThenRedoRestoresImage ==
    [][ (/\ app.op = "undo"
         /\ app.outcome = "ok"
         /\ app.id = active_layer_id
         /\ app'.op = "redo") =>
            ActiveImage(layers', active_layer_id') = app.before ]_vars

\* C30: after any successful edit of the active layer (filter, gradient fill
\* or drawing commit), including the very first edit of a newly added layer,
\* can_undo is true for that layer.
C30_CanUndoAfterEdit ==
    (app.op \in Edits /\ app.outcome = "ok") => can_undo(history_stacks, active_layer_id)

\* C31: when committing a drawing to the active layer fails with an
\* exception, the layer's image afterwards equals the image it had
\* immediately before the commit was attempted, whatever the layer's history
\* contained.
C31_FailedCommitKeepsImage ==
    [][ (app'.op = "apply_drawing" /\ app'.outcome \in {"raises_early", "raises_late"}) =>
            ActiveImage(layers', active_layer_id') = ActiveLayer.image ]_vars

(***************************************************************************)
(* The drawing session of ImageEditorWindow among several layers: the      *)
(* operations that start a session, draw in it, commit it and change the   *)
(* active layer. app.session is the id of the layer that was active when   *)
(* the session was started, NoId when there is no session.                 *)
(***************************************************************************)
SessionInit ==
    /\ max_depth = DefaultMaxHistoryDepth
    /\ history_stacks = <<>>
    /\ ret = None
    /\ last = NoCall
    /\ roundtrip = NoRoundtrip
    /\ pushed = [id \in LayerIds |-> EmptyLog]
    /\ layers = <<>>
    /\ active_layer_id = NoId
    /\ layer_name_counter = 1
    /\ composite = NotComputed
    /\ is_drawing_active = FALSE
    /\ drawing_canvas = None
    /\ app = [op |-> "none", outcome |-> "none", session |-> NoId]
    /\ canvas = None
    /\ stroke = NoStroke

SessionStep(st, op, outcome) ==
    /\ Len(st.layers) <= MaxSessionLayers
    /\ TotalEntries(st.hs) <= MaxAppEntries
    /\ layers' = st.layers
    /\ active_layer_id' = st.active
    /\ layer_name_counter' = st.counter
    /\ history_stacks' = st.hs
    /\ is_drawing_active' = st.drawing_active
    /\ drawing_canvas' = st.canvas
    /\ app' = [op |-> op, outcome |-> outcome,
               session |-> IF ~st.drawing_active THEN NoId
                           ELSE IF op = "start_drawing" THEN st.active
                           ELSE app.session]
    /\ UNCHANGED <<max_depth, ret, last, roundtrip, pushed, composite, canvas, stroke>>

SessionNewImage ==
    \E accepted \in BOOLEAN :
        SessionStep(create_new_image_dialog(AppState, accepted), "new_image",
                    IF accepted THEN "ok" ELSE "cancel")

SessionOpenImage ==
    \E opened \in {ImageNew(1, 1, OpaqueRed), None} :
        SessionStep(open_image_dialog(AppState, opened), "open_image",
                    IF opened = None THEN "cancel" ELSE "ok")

SessionAddNewLayer == SessionStep(add_new_layer_action(AppState), "add_layer", "ok")

SessionSelectLayer ==
    \E layer_id \in {layers[i].id : i \in 1..Len(layers)} \cup {NoId} :
        SessionStep(on_layer_selection_changed_in_listwidget(AppState, layer_id), "select", "ok")

SessionStart == SessionStep(start_drawing_session(AppState), "start_drawing", "ok")

SessionDraw ==
    /\ drawing_canvas # None
    /\ \E colour \in PenColours :
           SessionStep([AppState EXCEPT !.canvas = ImageNew(1, 1, colour)], "draw", "ok")

SessionApply ==
    SessionStep(apply_drawing_to_layer(AppState, "ok"), "apply_drawing",
                IF Asked /\ get_active_layer(layers, active_layer_id) # None
                THEN "ok" ELSE "noop")

SessionNext ==
    \/ SessionNewImage
    \/ SessionOpenImage
    \/ SessionAddNewLayer
    \/ SessionSelectLayer
    \/ SessionStart
    \/ SessionDraw
    \/ SessionApply

SpecSession == SessionInit /\ [][SessionNext]_vars

\* C32: the unapplied content of a drawing session is only ever committed to
\* the layer that was active when the session was started: an operation that
\* changes the active layer discards the session.
C32_CommitsToSessionLayer ==
    [][ (app'.op = "apply_drawing" /\ app'.outcome = "ok") =>
            active_layer_id = app.session ]_vars

(***************************************************************************)
(* Qt raster painting on a QImage of Format_ARGB32_Premultiplied, without  *)
(* antialiasing (QPainter's default): a pixel is painted or it is not. A   *)
(* point is <<x, y>>; the pixel <<x, y>> of an image is at index           *)
(* y * width + x + 1 of its px. A pen of width w with round caps and round *)
(* joins paints the pixels within w / 2 of the outline it strokes.         *)
(***************************************************************************)
QPoint == <<0, 0>>                      \* QPoint()
OpaqueBlack == <<0, 0, 0, 255>>         \* QColor(Qt.GlobalColor.black)
DefaultPenWidth == 5
BrushModes == {"brush", "eraser"}
ShapeModes == {"rect", "ellipse", "line"}
valid_modes == BrushModes \cup ShapeModes

Min(a, b) == IF a <= b THEN a ELSE b
Max(a, b) == IF a >= b THEN a ELSE b

\* the pixel at index i of an image of width w
PixelAt(w, i) == <<(i - 1) % w, (i - 1) \div w>>

\* qPremultiply: a QColor as a pixel of the image
Premultiply(colour) ==
    <<Div255(colour[1] * colour[4]), Div255(colour[2] * colour[4]),
      Div255(colour[3] * colour[4]), colour[4]>>

\* qUnpremultiply: a pixel of the image as a plain RGBA pixel
Unpremultiply(pixel) ==
    IF pixel[4] = 255 THEN pixel
    ELSE IF pixel[4] = 0 THEN Transparent
    ELSE LET inv == 16711935 \div pixel[4]
             channel(c) == (pixel[c] * inv + 32768) \div 65536
         IN  <<channel(1), channel(2), channel(3), pixel[4]>>

\* CompositionMode_SourceOver of a pen colour on a pixel
CompositionMode_SourceOver(dst, colour) ==
    LET src == Premultiply(colour)
    IN  [c \in 1..4 |-> src[c] + Div255(dst[c] * (255 - src[4]))]

\* CompositionMode_Clear: the pixel is cleared whatever the pen colour
CompositionMode_Clear(dst, colour) == Transparent

\* point p is within width / 2 of the segment from a to b
NearSegment(p, a, b, width) ==
    LET dx == b[1] - a[1]
        dy == b[2] - a[2]
        px == p[1] - a[1]
        py == p[2] - a[2]
        len2 == dx * dx + dy * dy
        t == px * dx + py * dy
        cross == px * dy - py * dx
    IN  IF len2 = 0 \/ t <= 0 THEN 4 * (px * px + py * py) <= width * width
        ELSE IF t >= len2
        THEN 4 * ((p[1] - b[1]) * (p[1] - b[1]) + (p[2] - b[2]) * (p[2] - b[2]))
                 <= width * width
        ELSE 4 * cross * cross <= width * width * len2

\* QRect(start_pos, end_pos).normalized(), as the edges drawRect and
\* drawEllipse stroke: a QRect of corners (x1, y1), (x2, y2) spans x1..x2 + 1
QRectNormalized(start_pos, end_pos) ==
    [left |-> Min(start_pos[1], end_pos[1] + 1),
     right |-> Max(start_pos[1], end_pos[1] + 1),
     top |-> Min(start_pos[2], end_pos[2] + 1),
     bottom |-> Max(start_pos[2], end_pos[2] + 1)]

\* point p is within width / 2 of the outline of the rectangle
NearRect(p, rect, width) ==
    \/ NearSegment(p, <<rect.left, rect.top>>, <<rect.right, rect.top>>, width)
    \/ NearSegment(p, <<rect.right, rect.top>>, <<rect.right, rect.bottom>>, width)
    \/ NearSegment(p, <<rect.right, rect.bottom>>, <<rect.left, rect.bottom>>, width)
    \/ NearSegment(p, <<rect.left, rect.bottom>>, <<rect.left, rect.top>>, width)

\* (dx / a)^2 + (dy / b)^2 <= 1, and < 1
InEllipse(dx, dy, a, b) ==
    a > 0 /\ b > 0 /\ dx * dx * b * b + dy * dy * a * a <= a * a * b * b
InsideEllipse(dx, dy, a, b) ==
    a > 0 /\ b > 0 /\ dx * dx * b * b + dy * dy * a * a < a * a * b * b

\* point p is in the band of the given width around the ellipse inscribed
\* in the rectangle (all lengths doubled, to stay in the integers)
NearEllipse(p, rect, width) ==
    LET dx == 2 * p[1] - (rect.left + rect.right)
        dy == 2 * p[2] - (rect.top + rect.bottom)
        a == rect.right - rect.left
        b == rect.bottom - rect.top
    IN  /\ InEllipse(dx, dy, a + width, b + width)
        /\ ~InsideEllipse(dx, dy, a - width, b - width)

\* the pixels the outline of a shape from start_pos to end_pos covers
ShapeCovers(p, shape_type, start_pos, end_pos, width) ==
    CASE shape_type = "rect" -> NearRect(p, QRectNormalized(start_pos, end_pos), width)
      [] shape_type = "ellipse" -> NearEllipse(p, QRectNormalized(start_pos, end_pos), width)
      [] shape_type = "line" -> NearSegment(p, start_pos, end_pos, width)
      [] OTHER -> FALSE

\* the composition mode of the painter applied to one pixel
Compose(composition_mode, dst, colour) ==
    IF composition_mode = "Clear" THEN CompositionMode_Clear(dst, colour)
    ELSE CompositionMode_SourceOver(dst, colour)

\* a painter call on the image: the pixels the pen covers are composed with
\* the pen colour, the others are left alone
Paint(image, shape_type, start_pos, end_pos, width, composition_mode, colour) ==
    [size |-> image.size,
     px |-> [i \in 1..Len(image.px) |->
                IF ShapeCovers(PixelAt(image.size[1], i), shape_type, start_pos,
                               end_pos, width)
                THEN Compose(composition_mode, image.px[i], colour)
                ELSE image.px[i]]]

(***************************************************************************)
(* DrawingCanvas (src/app/drawing_canvas.py). The widget is the record of  *)
(* its attributes, and under_mouse, Qt's QWidget.underMouse() of it;       *)
(* current_mouse_pos, which only places the brush cursor in paintEvent, is *)
(* left out.                                                               *)
(***************************************************************************)
\* DrawingCanvas.__init__
DrawingCanvas(width, height) ==
    [image |-> ImageNew(width, height, Transparent),
     drawing |-> FALSE,
     last_point |-> QPoint,
     pen_color |-> OpaqueBlack,
     pen_width |-> DefaultPenWidth,
     mode |-> "brush",
     start_point |-> QPoint,
     temp_image |-> None,
     show_brush_cursor |-> FALSE,
     under_mouse |-> FALSE]

set_pen_color(self, color) == [self EXCEPT !.pen_color = color]

\* A Python value passed as a width: its type and its number (a float in
\* tenths, True as 1, a string by the number it spells).
PyInt(n) == [type |-> "int", value |-> n]
PyFloat(tenths) == [type |-> "float", value |-> tenths]
PyBool(b) == [type |-> "bool", value |-> IF b THEN 1 ELSE 0]
PyStr(n) == [type |-> "str", value |-> n]

\* isinstance(width, int): bool is a subclass of int
isinstance_int(width) == width.type \in {"int", "bool"}

\* width > 0, of a number
GreaterThanZero(width) == width.value > 0

set_pen_width_unchecked(self, width) == [self EXCEPT !.pen_width = width.value]
set_pen_width(self, width) ==
    IF isinstance_int(width) /\ GreaterThanZero(width)
    THEN [self EXCEPT !.pen_width = width.value]
    ELSE self

set_mode(self, mode) ==
    IF mode \in valid_modes
    THEN [self EXCEPT !.mode = mode, !.show_brush_cursor = mode \in BrushModes]
    ELSE self

clear_canvas(self) ==
    [self EXCEPT !.image = ImageNew(self.image.size[1], self.image.size[2], Transparent)]

get_image(self) == self.image

\* _draw_shape_on_painter on a painter of image: the image afterwards
draw_shape_on_painter(image, shape_type, start_pos, end_pos, pen_color, pen_width) ==
    Paint(image, shape_type, start_pos, end_pos, pen_width, "SourceOver", pen_color)

mousePressEvent(self, button, point) ==
    IF button = "left"
    THEN [self EXCEPT !.drawing = TRUE,
                      !.last_point = point,
                      !.start_point = point,
                      !.temp_image = IF self.mode \in ShapeModes
                                     THEN copy(self.image)
                                     ELSE self.temp_image]
    ELSE self

\* mouseMoveEvent, brush or eraser: a line from last_point to the pointer
StrokeWithoutClear(self, current_point) ==
    [self EXCEPT
        !.image = Paint(self.image, "line", self.last_point, current_point,
                        self.pen_width, "SourceOver",
                        IF self.mode = "eraser" THEN Transparent ELSE self.pen_color),
        !.last_point = current_point]
Stroke(self, current_point) ==
    [self EXCEPT
        !.image = Paint(self.image, "line", self.last_point, current_point,
                        self.pen_width,
                        IF self.mode = "eraser" THEN "Clear" ELSE "SourceOver",
                        IF self.mode = "eraser" THEN Transparent ELSE self.pen_color),
        !.last_point = current_point]

\* mouseMoveEvent, rect, ellipse or line: the image of the pointer press is
\* restored and the shape from start_point to the pointer is drawn on it
PreviewWithoutRestore(self, current_point) ==
    [self EXCEPT
        !.image = draw_shape_on_painter(self.image, self.mode, self.start_point,
                                        current_point, self.pen_color, self.pen_width)]
Preview(self, current_point) ==
    [self EXCEPT
        !.image = draw_shape_on_painter(copy(self.temp_image), self.mode, self.start_point,
                                        current_point, self.pen_color, self.pen_width)]

mouseMoveEvent_without_drawing_check(self, point) ==
    IF self.mode \in BrushModes THEN Stroke(self, point)
    ELSE IF self.mode \in ShapeModes /\ self.temp_image # None THEN Preview(self, point)
    ELSE self
mouseMoveEvent(self, point) ==
    IF ~self.drawing THEN self
    ELSE IF self.mode \in BrushModes THEN Stroke(self, point)
    ELSE IF self.mode \in ShapeModes /\ self.temp_image # None THEN Preview(self, point)
    ELSE self

mouseReleaseEvent_keeps_temp_image(self, button, point) ==
    IF button = "left" /\ self.drawing
    THEN [self EXCEPT !.drawing = FALSE]
    ELSE self
mouseReleaseEvent(self, button, point) ==
    IF button = "left" /\ self.drawing
    THEN [self EXCEPT !.drawing = FALSE, !.temp_image = None]
    ELSE self

enterEvent_any_mode(self) ==
    [self EXCEPT !.show_brush_cursor = TRUE, !.under_mouse = TRUE]
enterEvent(self) ==
    [self EXCEPT !.show_brush_cursor = IF self.mode \in BrushModes THEN TRUE ELSE @,
                 !.under_mouse = TRUE]

leaveEvent(self) == [self EXCEPT !.show_brush_cursor = FALSE, !.under_mouse = FALSE]

\* paintEvent: the widget afterwards, the image drawn on the screen and
\* whether the outline of the brush cursor is drawn over it
paintEvent(self) ==
    [self |-> self,
     image |-> self.image,
     cursor |-> /\ self.show_brush_cursor /\ ~self.drawing /\ self.under_mouse
                /\ self.pen_width > 0]

(***************************************************************************)
(* SpecDrawing: one DrawingCanvas and the calls the window and the pointer *)
(* make on it. The canvas starts as start_drawing_session builds it, blank *)
(* or holding an earlier brush stroke, with the pointer come over it, and  *)
(* the pointer stays over it (SpecCursor has it come and go, on a smaller  *)
(* canvas). The pointer has one left button,                               *)
(* and the window's tool, colour, size and clear controls are operated     *)
(* with it: a press, and a call from the window, comes only when no drag   *)
(* is in progress.                                                         *)
(***************************************************************************)
\* where the pointer goes
Points == {<<0, 0>>, <<CanvasSide - 1, CanvasSide \div 2>>, <<1, CanvasSide - 1>>}
BrushColours == {OpaqueBlack, OpaqueRed}
BrushSizes == {1, 3}                    \* values of brush_size_slider
Buttons == {"left", "right"}
\* what set_pen_width is called with: slider values, and 0, -1, 2.5, True, "3"
WidthArguments ==
    {PyInt(n) : n \in BrushSizes \cup {0, -1}} \cup {PyFloat(25), PyBool(TRUE), PyStr(3)}

\* DrawingCanvas(...), set_pen_color, set_pen_width of start_drawing_session
NewCanvas(width, height, size) ==
    LET self == DrawingCanvas(width, height)
    IN  set_pen_width(set_pen_color(self, self.pen_color), PyInt(size))

\* the canvas image after a brush stroke of one pointer move, pen width 1
EarlierStroke(image, colour) ==
    Paint(image, "line", <<0, 0>>, <<CanvasSide - 1, CanvasSide \div 2>>, 1,
          "SourceOver", colour)

\* the move previews a shape
Previews == canvas.mode \in ShapeModes /\ canvas.temp_image # None

\* the move paints over what the image holds: a brush or eraser stroke, or
\* the first preview of a drag (the later ones replace it)
Accumulates == canvas.mode \in BrushModes \/ (Previews /\ stroke.previews = {})

\* the eraser stroke from last_point to point clears a pixel that is painted
\* in a colour other than the pen's, and leaves a painted pixel
ErasesOther(point) ==
    /\ canvas.mode = "eraser"
    /\ \E i, j \in 1..Len(canvas.image.px) :
           /\ NearSegment(PixelAt(canvas.image.size[1], i), canvas.last_point, point,
                          canvas.pen_width)
           /\ canvas.image.px[i] \notin {Transparent, canvas.pen_color}
           /\ ~NearSegment(PixelAt(canvas.image.size[1], j), canvas.last_point, point,
                           canvas.pen_width)
           /\ canvas.image.px[j] # Transparent

\* the record of a call when none was made before: the event, the button
\* of a pointer event, the argument of set_pen_width or set_mode, whether a
\* paintEvent drew the brush cursor, and the drag so far
FirstCall ==
    [event |-> "other", button |-> "none", width |-> PyInt(0), mode |-> "",
     cursor |-> FALSE, point |-> QPoint, down |-> None, anchor |-> QPoint,
     previews |-> {}, paints |-> 0, erased |-> FALSE]

\* a pointer move during a drag
MoveCall(point) ==
    [event |-> "move", button |-> "none", width |-> PyInt(0), mode |-> "",
     cursor |-> FALSE, point |-> point, down |-> stroke.down, anchor |-> stroke.anchor,
     previews |-> IF Previews THEN stroke.previews \cup {point} ELSE stroke.previews,
     paints |-> IF Accumulates THEN stroke.paints + 1 ELSE stroke.paints,
     erased |-> ErasesOther(point)]

\* any other canvas call
OtherCall ==
    [FirstCall EXCEPT !.down = stroke.down, !.anchor = stroke.anchor,
                      !.previews = stroke.previews, !.paints = stroke.paints]

\* a pointer event that is no move of a drag: a press, a release, or a move
\* with no button down ("hover")
PointerCall(event, button) == [OtherCall EXCEPT !.event = event, !.button = button]

WindowUnchanged ==
    UNCHANGED <<max_depth, history_stacks, ret, last, roundtrip, pushed, layers,
                active_layer_id, layer_name_counter, composite,
                is_drawing_active, drawing_canvas, app>>

DrawingInit ==
    /\ max_depth = DefaultMaxHistoryDepth
    /\ history_stacks = <<>>
    /\ ret = None
    /\ last = NoCall
    /\ roundtrip = NoRoundtrip
    /\ pushed = [id \in LayerIds |-> EmptyLog]
    /\ layers = <<>>
    /\ active_layer_id = NoId
    /\ layer_name_counter = 1
    /\ composite = NotComputed
    /\ is_drawing_active = FALSE
    /\ drawing_canvas = None
    /\ app = NoApp
    /\ \E size \in BrushSizes :
           LET self == enterEvent(NewCanvas(CanvasSide, CanvasSide, size))
           IN  \/ canvas = self
               \/ \E colour \in {OpaqueRed} :
                      canvas = [self EXCEPT !.image = EarlierStroke(@, colour)]
    /\ stroke = FirstCall

SetPenColor(color) ==
    /\ ~canvas.drawing
    /\ canvas' = set_pen_color(canvas, color)
    /\ stroke' = OtherCall
    /\ WindowUnchanged

SetPenWidth(width) ==
    /\ ~canvas.drawing
    /\ canvas' = set_pen_width(canvas, width)
    /\ stroke' = [OtherCall EXCEPT !.event = "set_pen_width", !.width = width]
    /\ WindowUnchanged

SetMode(mode) ==
    /\ ~canvas.drawing
    /\ canvas' = set_mode(canvas, mode)
    /\ stroke' = [OtherCall EXCEPT !.event = "set_mode", !.mode = mode]
    /\ WindowUnchanged

\* the pointer comes over the widget
EnterEvent ==
    /\ ~canvas.under_mouse
    /\ canvas' = enterEvent(canvas)
    /\ stroke' = PointerCall("enter", "none")
    /\ WindowUnchanged

\* the pointer goes off the widget; during a drag the widget has the mouse
\* grabbed and Qt holds the leave back until the button is released
LeaveEvent ==
    /\ canvas.under_mouse
    /\ ~canvas.drawing
    /\ canvas' = leaveEvent(canvas)
    /\ stroke' = PointerCall("leave", "none")
    /\ WindowUnchanged

\* the repaint that update() asks for
PaintEvent ==
    /\ canvas' = paintEvent(canvas).self
    /\ stroke' = [OtherCall EXCEPT !.event = "paint", !.cursor = paintEvent(canvas).cursor]
    /\ WindowUnchanged

ClearCanvas ==
    /\ ~canvas.drawing
    /\ canvas' = clear_canvas(canvas)
    /\ stroke' = OtherCall
    /\ WindowUnchanged

MousePress(button, point) ==
    /\ canvas.under_mouse
    /\ ~canvas.drawing
    /\ canvas' = mousePressEvent(canvas, button, point)
    /\ stroke' = IF button = "left"
                 THEN [PointerCall("press", button) EXCEPT
                          !.down = IF canvas.mode \in ShapeModes THEN canvas.image ELSE None,
                          !.anchor = point,
                          !.previews = {}]
                 ELSE PointerCall("press", button)
    /\ WindowUnchanged

MouseMove(point) ==
    /\ canvas.under_mouse
    /\ (canvas.drawing /\ Accumulates) => stroke.paints < MaxPaints
    /\ canvas' = mouseMoveEvent(canvas, point)
    /\ stroke' = IF canvas.drawing THEN MoveCall(point) ELSE PointerCall("hover", "none")
    /\ WindowUnchanged

MouseRelease(button, point) ==
    /\ canvas.under_mouse
    /\ canvas' = mouseReleaseEvent(canvas, button, point)
    /\ stroke' = IF button = "left" /\ canvas.drawing
                 THEN [PointerCall("release", button) EXCEPT
                          !.down = None, !.anchor = QPoint, !.previews = {}]
                 ELSE PointerCall("release", button)
    /\ WindowUnchanged

DrawingNext ==
    \/ \E color \in BrushColours : SetPenColor(color)
    \/ \E width \in BrushSizes \cup {0} : SetPenWidth(PyInt(width))
    \/ \E mode \in valid_modes \cup {"fill"} : SetMode(mode)
    \/ ClearCanvas
    \/ \E button \in Buttons, point \in Points : MousePress(button, point)
    \/ \E point \in Points : MouseMove(point)
    \/ \E button \in Buttons, point \in Points : MouseRelease(button, point)

SpecDrawing == DrawingInit /\ [][DrawingNext]_vars

(***************************************************************************)
(* SpecCursor: the same canvas, CursorSide pixels a side, with every call  *)
(* of SpecDrawing and also the pointer coming over the widget and going    *)
(* off it, the repaints, and set_pen_width and set_mode called with values *)
(* they refuse.                                                            *)
(***************************************************************************)
CursorPoints == {<<0, 0>>, <<CursorSide - 1, CursorSide - 1>>}
ModeArguments == valid_modes \cup {"fill", ""}

CursorInit ==
    /\ max_depth = DefaultMaxHistoryDepth
    /\ history_stacks = <<>>
    /\ ret = None
    /\ last = NoCall
    /\ roundtrip = NoRoundtrip
    /\ pushed = [id \in LayerIds |-> EmptyLog]
    /\ layers = <<>>
    /\ active_layer_id = NoId
    /\ layer_name_counter = 1
    /\ composite = NotComputed
    /\ is_drawing_active = FALSE
    /\ drawing_canvas = None
    /\ app = NoApp
    /\ \E size \in BrushSizes : canvas = NewCanvas(CursorSide, CursorSide, size)
    /\ stroke = FirstCall

CursorNext ==
    \/ \E color \in BrushColours : SetPenColor(color)
    \/ \E width \in WidthArguments : SetPenWidth(width)
    \/ \E mode \in ModeArguments : SetMode(mode)
    \/ ClearCanvas
    \/ EnterEvent
    \/ LeaveEvent
    \/ PaintEvent
    \/ \E button \in Buttons, point \in CursorPoints : MousePress(button, point)
    \/ \E point \in CursorPoints : MouseMove(point)
    \/ \E button \in Buttons, point \in CursorPoints : MouseRelease(button, point)

SpecCursor == CursorInit /\ [][CursorNext]_vars

(***************************************************************************)
(* SpecDrag: the canvas, CursorSide pixels a side, with set_mode and       *)
(* clear_canvas called at any moment, during a drag too: both are slots of *)
(* toolbar actions and the canvas does not refuse them while drawing.      *)
(***************************************************************************)
\* the image after an earlier stroke of one pixel at the origin
EarlierDot(image) == Paint(image, "line", <<0, 0>>, <<0, 0>>, 1, "SourceOver", OpaqueRed)

DragInit ==
    /\ max_depth = DefaultMaxHistoryDepth
    /\ history_stacks = <<>>
    /\ ret = None
    /\ last = NoCall
    /\ roundtrip = NoRoundtrip
    /\ pushed = [id \in LayerIds |-> EmptyLog]
    /\ layers = <<>>
    /\ active_layer_id = NoId
    /\ layer_name_counter = 1
    /\ composite = NotComputed
    /\ is_drawing_active = FALSE
    /\ drawing_canvas = None
    /\ app = NoApp
    /\ LET self == enterEvent(NewCanvas(CursorSide, CursorSide, 1))
       IN  canvas \in {self, [self EXCEPT !.image = EarlierDot(@)]}
    /\ stroke = FirstCall

DragSetMode(mode) ==
    /\ canvas' = set_mode(canvas, mode)
    /\ stroke' = [OtherCall EXCEPT !.event = "set_mode", !.mode = mode]
    /\ WindowUnchanged

DragClearCanvas ==
    /\ canvas' = clear_canvas(canvas)
    /\ stroke' = [OtherCall EXCEPT !.event = "clear_canvas"]
    /\ WindowUnchanged

\* the right button can go down while the left one is held
DragPress(button, point) ==
    /\ button = "left" => ~canvas.drawing
    /\ canvas' = mousePressEvent(canvas, button, point)
    /\ stroke' = IF button = "left"
                 THEN [PointerCall("press", button) EXCEPT
                          !.down = IF canvas.mode \in ShapeModes THEN canvas.image ELSE None,
                          !.anchor = point,
                          !.previews = {}]
                 ELSE PointerCall("press", button)
    /\ WindowUnchanged

DragNext ==
    \/ \E mode \in valid_modes : DragSetMode(mode)
    \/ DragClearCanvas
    \/ \E button \in Buttons, point \in CursorPoints : DragPress(button, point)
    \/ \E point \in CursorPoints : MouseMove(point)
    \/ \E button \in Buttons, point \in CursorPoints : MouseRelease(button, point)

SpecDrag == DragInit /\ [][DragNext]_vars

\* C33: after any sequence of press, move, release, set_mode and
\* clear_canvas, temp_image is None whenever the drawing flag is false, and
\* a release of the left button always leaves it None.
C33_SnapshotOnlyWhileDrawing ==
    /\ [](~canvas.drawing => canvas.temp_image = None)
    /\ [][ (stroke'.event = "release" /\ stroke'.button = "left") =>
               canvas'.temp_image = None ]_vars

\* a left release has ended a shape drag that held a snapshot with content
C33_Witness ==
    /\ stroke.event = "release"
    /\ stroke.button = "left"
    /\ canvas.mode \in ShapeModes
    /\ ~canvas.drawing
    /\ canvas.temp_image = None
    /\ canvas.image # ImageNew(CursorSide, CursorSide, Transparent)

\* C34: after clear_canvas no pixel painted before the clear comes back:
\* when clear_canvas is called during a shape drag, the image after the next
\* move holds the shape alone.
C34_ClearedPixelsStayCleared ==
    [][ (/\ stroke.event = "clear_canvas"
         /\ stroke'.event = "move"
         /\ Previews) =>
            canvas'.image = draw_shape_on_painter(
                                ImageNew(CursorSide, CursorSide, Transparent),
                                canvas.mode, canvas.start_point, stroke'.point,
                                canvas.pen_color, canvas.pen_width) ]_vars

(***************************************************************************)
(* Claims about the drawing canvas, checked under SpecDrawing.             *)
(***************************************************************************)
\* the last call was a pointer move of a drag that began in a shape mode
ShapeDragMoved ==
    /\ stroke.event = "move"
    /\ canvas.drawing
    /\ canvas.mode \in ShapeModes
    /\ stroke.down # None

\* C18: during a shape-mode drag (rect, ellipse or line) that began at anchor
\* A, after every pointer move to a point P the working buffer equals the
\* buffer as it was at pointer-down with exactly one shape from A to P drawn
\* on it, however many earlier moves to other points occurred; no trace of
\* earlier preview shapes remains.
C18_PreviewIsOneShape ==
    ShapeDragMoved =>
        /\ canvas.image =
               draw_shape_on_painter(stroke.down, canvas.mode, stroke.anchor, stroke.point,
                                     canvas.pen_color, canvas.pen_width)
        /\ \A i \in 1..Len(canvas.image.px) :
               ~ShapeCovers(PixelAt(canvas.image.size[1], i), canvas.mode, stroke.anchor,
                            stroke.point, canvas.pen_width)
                   => canvas.image.px[i] = stroke.down.px[i]

C18_Witness ==
    /\ ShapeDragMoved
    /\ Cardinality(stroke.previews) >= 3
    /\ \E i \in 1..Len(stroke.down.px) : stroke.down.px[i] # Transparent
    /\ \E q \in stroke.previews \ {stroke.point} : \E i \in 1..Len(canvas.image.px) :
           LET p == PixelAt(canvas.image.size[1], i)
           IN  /\ ShapeCovers(p, canvas.mode, stroke.anchor, q, canvas.pen_width)
               /\ ~ShapeCovers(p, canvas.mode, stroke.anchor, stroke.point, canvas.pen_width)
               /\ canvas.image.px[i] = Transparent

\* C20: an eraser-mode pointer move during an active stroke makes every
\* pixel on the stroked segment of the working buffer fully transparent
\* whatever its prior colour and whatever the current pen colour, and leaves
\* the pixels off the segment unchanged.
C20_EraserClearsSegment ==
    [][ (stroke'.event = "move" /\ canvas.mode = "eraser") =>
            /\ canvas'.image.size = canvas.image.size
            /\ \A i \in 1..Len(canvas.image.px) :
                   canvas'.image.px[i] =
                       IF NearSegment(PixelAt(canvas.image.size[1], i), canvas.last_point,
                                      stroke'.point, canvas.pen_width)
                       THEN Transparent
                       ELSE canvas.image.px[i] ]_vars

C20_Witness ==
    /\ stroke.event = "move"
    /\ canvas.mode = "eraser"
    /\ stroke.erased

\* C21: the drawing session starts Idle, is Active exactly from a left-button
\* press until the next left-button release, and while it is Idle
\* pointer-move and pointer-release events leave the working buffer (image),
\* the stroke anchor (last_point), the shape anchor (start_point) and the
\* shape snapshot (temp_image) unchanged.
C21_IdleActiveIdle ==
    /\ ~canvas.drawing
    /\ [][ /\ canvas'.drawing =
                  (IF stroke'.event = "press" /\ stroke'.button = "left" THEN TRUE
                   ELSE IF stroke'.event = "release" /\ stroke'.button = "left" THEN FALSE
                   ELSE canvas.drawing)
           /\ (~canvas.drawing /\ stroke'.event \in {"hover", "release"}) =>
                  /\ canvas'.image = canvas.image
                  /\ canvas'.last_point = canvas.last_point
                  /\ canvas'.start_point = canvas.start_point
                  /\ canvas'.temp_image = canvas.temp_image ]_vars

\* a drag has painted and ended, and the pointer then moved with no button
\* down over an image that holds paint
C21_Witness ==
    /\ stroke.event = "hover"
    /\ ~canvas.drawing
    /\ stroke.paints > 0
    /\ canvas.last_point # QPoint
    /\ \E i \in 1..Len(canvas.image.px) : canvas.image.px[i] # Transparent

(***************************************************************************)
(* Claims about the setters and the brush cursor, checked under SpecCursor.*)
(***************************************************************************)
\* C22: set_pen_width with a non-positive or non-integer value and set_mode
\* with a string outside {brush, eraser, rect, ellipse, line} do not raise
\* and leave pen width, mode and cursor-visibility flag unchanged;
\* consequently, after any sequence of setter calls, pen width is at least 1
\* and mode is one of the five valid modes.
C22_SettersRefuseInvalid ==
    /\ [](/\ canvas.pen_width >= 1
          /\ canvas.mode \in {"brush", "eraser", "rect", "ellipse", "line"})
    /\ [][ ( \/ /\ stroke'.event = "set_pen_width"
                /\ \/ stroke'.width.type \notin {"int", "bool"}
                   \/ stroke'.width.value <= 0
             \/ /\ stroke'.event = "set_mode"
                /\ stroke'.mode \notin {"brush", "eraser", "rect", "ellipse", "line"} ) =>
                /\ canvas'.pen_width = canvas.pen_width
                /\ canvas'.mode = canvas.mode
                /\ canvas'.show_brush_cursor = canvas.show_brush_cursor ]_vars

\* a refused width was the last call, after a width and a mode were set
C22_Witness ==
    /\ stroke.event = "set_pen_width"
    /\ stroke.width.type = "float"
    /\ canvas.pen_width = 3
    /\ canvas.mode = "rect"
    /\ canvas.under_mouse

\* C26: after any sequence of set_mode, enter, leave, press, move and
\* release events, the brush-cursor outline is rendered only when the
\* session is not Active and the current mode is brush or eraser, and
\* rendering it never changes the working buffer.
C26_CursorOnlyIdleBrush ==
    [][ stroke'.event = "paint" =>
            /\ stroke'.cursor => (~canvas.drawing /\ canvas.mode \in {"brush", "eraser"})
            /\ canvas'.image = canvas.image ]_vars

\* the cursor is drawn over an image that a drag has painted
C26_Witness ==
    /\ stroke.event = "paint"
    /\ stroke.cursor
    /\ stroke.paints > 0
    /\ \E i \in 1..Len(canvas.image.px) : canvas.image.px[i] # Transparent

(***************************************************************************)
(* SpecScenario: the editor window with one fully transparent layer, a     *)
(* drawing session on it with a shape tool, the drawing applied to the     *)
(* layer, and the composite. drawing_canvas is the canvas image as         *)
(* apply_drawing_to_layer reads it, through ImageQt.fromqimage.            *)
(***************************************************************************)
LayerSize == <<100, 100>>
PressPoint == <<10, 10>>
ReleasePoints == {<<40, 40>>, <<90, 60>>}
SliderValues == {1, DefaultPenWidth, 30}    \* brush_size_slider, 1..50

\* ImageQt.fromqimage(drawing_qimage.convertToFormat(Format_ARGB32_Premultiplied))
fromqimage(image) ==
    [size |-> image.size, px |-> [i \in 1..Len(image.px) |-> Unpremultiply(image.px[i])]]

ScenarioInit ==
    /\ max_depth = DefaultMaxHistoryDepth
    /\ history_stacks = <<>>
    /\ ret = None
    /\ last = NoCall
    /\ roundtrip = NoRoundtrip
    /\ pushed = [id \in LayerIds |-> EmptyLog]
    /\ LET st == add_new_layer_action(
                     [layers |-> <<>>, active |-> NoId, counter |-> 1, hs |-> <<>>,
                      drawing_active |-> FALSE, canvas |-> None])
       IN  /\ layers = SetImage(st.layers, st.active,
                                ImageNew(LayerSize[1], LayerSize[2], Transparent))
           /\ active_layer_id = st.active
           /\ layer_name_counter = st.counter
    /\ composite = NotComputed
    /\ is_drawing_active = FALSE
    /\ drawing_canvas = None
    /\ app = NoApp
    /\ canvas = None
    /\ stroke = NoStroke

\* the canvas and the record of the call on it, after a call
CanvasStep(self, call) ==
    /\ canvas' = self
    /\ stroke' = call
    /\ drawing_canvas' = fromqimage(get_image(self))
    /\ UNCHANGED <<max_depth, history_stacks, ret, last, roundtrip, pushed, layers,
                   active_layer_id, layer_name_counter, composite, app>>

\* start_drawing_session(mode) with no canvas yet: one of the layer's size is
\* made, with the slider's pen width
StartShapeSession(mode, size) ==
    LET active_layer == get_active_layer(layers, active_layer_id)
    IN  /\ canvas = None
        /\ TotalEntries(history_stacks) < MaxCommits
        /\ active_layer # None
        /\ active_layer.image # None
        /\ is_drawing_active' = TRUE
        /\ CanvasStep(set_mode(NewCanvas(active_layer.image.size[1],
                                         active_layer.image.size[2], size), mode),
                      FirstCall)

ScenarioPress(point) ==
    /\ canvas # None
    /\ ~canvas.drawing
    /\ stroke.paints < MaxPaints
    /\ CanvasStep(mousePressEvent(canvas, "left", point),
                  [PointerCall("press", "left") EXCEPT
                      !.down = canvas.image, !.anchor = point, !.previews = {}])
    /\ UNCHANGED is_drawing_active

ScenarioMove(point) ==
    /\ canvas # None
    /\ canvas.drawing
    /\ CanvasStep(mouseMoveEvent(canvas, point), MoveCall(point))
    /\ UNCHANGED is_drawing_active

\* the button is released where the pointer last moved
ScenarioRelease ==
    /\ canvas # None
    /\ canvas.drawing
    /\ stroke.event = "move"
    /\ CanvasStep(mouseReleaseEvent(canvas, "left", stroke.point),
                  [stroke EXCEPT !.event = "release", !.button = "left"])
    /\ UNCHANGED is_drawing_active

\* apply_drawing_to_layer, then the widget is gone
ApplyShape ==
    LET st == apply_drawing_to_layer(AppState, "ok")
    IN  /\ canvas # None
        /\ ~canvas.drawing
        /\ layers' = st.layers
        /\ active_layer_id' = st.active
        /\ layer_name_counter' = st.counter
        /\ history_stacks' = st.hs
        /\ is_drawing_active' = st.drawing_active
        /\ drawing_canvas' = st.canvas
        /\ canvas' = None
        /\ app' = [op |-> "apply_drawing", outcome |-> "ok", shape |-> canvas.mode,
                   pen |-> canvas.pen_color, width |-> canvas.pen_width,
                   from |-> stroke.anchor, to |-> stroke.point,
                   dragged |-> stroke.event = "release" /\ stroke.paints > 0]
        /\ UNCHANGED <<max_depth, ret, last, roundtrip, pushed, composite, stroke>>

\* update_composite_image_display: get_composite_image
ShowComposite ==
    /\ canvas = None
    /\ app.op = "apply_drawing"
    /\ composite' = get_composite_image(layers)
    /\ UNCHANGED <<max_depth, history_stacks, ret, last, roundtrip, pushed, layers,
                   active_layer_id, layer_name_counter,
                   is_drawing_active, drawing_canvas, app, canvas, stroke>>

ScenarioNext ==
    \/ \E mode \in ShapeModes, size \in SliderValues : StartShapeSession(mode, size)
    \/ ScenarioPress(PressPoint)
    \/ \E point \in ReleasePoints : ScenarioMove(point)
    \/ ScenarioRelease
    \/ ApplyShape
    \/ ShowComposite

SpecScenario == ScenarioInit /\ [][ScenarioNext]_vars

\* the pixel <<x, y>> of an image
PixelOf(image, point) == image.px[point[2] * image.size[1] + point[1] + 1]

\* C19: on a stack holding one fully transparent 100x100 layer, a rectangle
\* drawn with the opaque black pen by dragging from (10,10) to (40,40) and
\* then committed to the layer makes the composite opaque black at the
\* interior pixel (25,25), while pixel (5,5) outside the rectangle stays
\* fully transparent.
C19_RectangleIsFilled ==
    (/\ Computed
     /\ app.op = "apply_drawing"
     /\ app.dragged
     /\ app.shape = "rect"
     /\ app.pen = OpaqueBlack
     /\ app.from = <<10, 10>>
     /\ app.to = <<40, 40>>) =>
        /\ PixelOf(composite, <<25, 25>>) = OpaqueBlack
        /\ PixelOf(composite, <<5, 5>>) = Transparent

====
